---------------------------- MODULE Spec2Model ----------------------------
(***************************************************************************)
(* Model of regfile_generics: the register value engine (regfile.py) and   *)
(* the device access layer (regfile_device.py).                            *)
(*                                                                         *)
(* Python integers are unbounded two's complement numbers.  They are       *)
(* modelled exactly as records [neg, bits]: for neg = FALSE, bits is the   *)
(* set of positions holding a 1; for neg = TRUE, bits is the set of        *)
(* positions holding a 0 (all other positions, infinitely many, hold 1).   *)
(* Every integer has exactly one such record, so = is Python's ==.         *)
(***************************************************************************)
EXTENDS Integers, Sequences, FiniteSets, TLC

VARIABLES
    dev,             \* the device: [kind, n_word_bytes]
    mem,             \* the debug device's memory: address -> stored integer
    call,            \* arguments of a direct rfdev_write call (device level)
    rawlog,          \* raw primitives issued by the last operation, in order
    devlog,          \* Device.read / Device.write calls of the last operation
    entry,           \* static configuration of the register entry
    mirrored_value,  \* RegisterEntry.mirrored_value
    desired_value,   \* RegisterEntry.desired_value
    regfile,         \* the Regfile the entry belongs to: [base_addr]
    staged,          \* a desired-only set happened since the last transfer/reset
    last,            \* the last operation: what it was and how it ended
    nops,            \* number of operations invoked so far
    file,            \* the Regfile object: [frozen, dict]
    entries,         \* Regfile._entries: name -> entry object
    handles,         \* entries whose field-adding handle the caller holds
    scopes,          \* entries whose field-adding scope is open
    snapshot,        \* the RegisterEntry get_reg()/read_entry() returned
    setfunc_owner    \* field name -> the object the field's set() is bound to

\* the state of the structure of a Regfile
structvars == <<file, entries, handles, scopes>>

vars == <<dev, mem, call, rawlog, devlog, entry, mirrored_value, desired_value,
          regfile, staged, last, nops, file, entries, handles, scopes,
          snapshot, setfunc_owner>>

---------------------------------------------------------------------------
(* Bounds of the model *)

\* largest device word size in bytes that is explored at device level
MaxWordBytes == 4
\* word addresses 0 .. MaxWordIdx (times the word size) are used at device level
MaxWordIdx == 1
\* number of operations invoked on the entry in one run
MaxOps == 3
\* number of operations invoked in one run of the operations that name fields
MaxFieldOps == 2
\* number of operations invoked in one run on the structure of a Regfile
MaxSealOps == 7
\* number of operations invoked in one run of the comparisons
MaxCmpOps == 2
\* number of operations invoked in one run with a snapshot of the entry
MaxSnapOps == 3
\* number of words of a block transfer
MaxBlockLen == 2
\* number of operations invoked in one run of the block transfers
MaxBlockOps == 3

---------------------------------------------------------------------------
(* Python integers *)

Zero == [neg |-> FALSE, bits |-> {}]

MinusOne == [neg |-> TRUE, bits |-> {}]

\* ~a
BitNot(a) == [neg |-> ~a.neg, bits |-> a.bits]

\* a & b
BitAnd(a, b) ==
    CASE ~a.neg /\ ~b.neg -> [neg |-> FALSE, bits |-> a.bits \cap b.bits]
      [] ~a.neg /\ b.neg  -> [neg |-> FALSE, bits |-> a.bits \ b.bits]
      [] a.neg /\ ~b.neg  -> [neg |-> FALSE, bits |-> b.bits \ a.bits]
      [] a.neg /\ b.neg   -> [neg |-> TRUE,  bits |-> a.bits \cup b.bits]

\* a | b
BitOr(a, b) == BitNot(BitAnd(BitNot(a), BitNot(b)))

\* a << k
Shl(a, k) ==
    IF a.neg
    THEN [neg |-> TRUE,  bits |-> {b + k : b \in a.bits} \cup (0 .. (k - 1))]
    ELSE [neg |-> FALSE, bits |-> {b + k : b \in a.bits}]

\* a >> k (arithmetic)
Shr(a, k) == [neg |-> a.neg, bits |-> {b - k : b \in {c \in a.bits : c >= k}}]

\* (1 << nbits) - 1
FullMask(nbits) == [neg |-> FALSE, bits |-> 0 .. (nbits - 1)]

\* the integer with exactly the bits lsb .. msb set
BitRange(msb, lsb) == [neg |-> FALSE, bits |-> lsb .. msb]

\* a small natural number as a Python integer
RECURSIVE NatBits(_, _)
NatBits(n, pos) ==
    IF n = 0 THEN {}
    ELSE (IF n % 2 = 1 THEN {pos} ELSE {}) \cup NatBits(n \div 2, pos + 1)

PyInt(n) == IF n >= 0 THEN [neg |-> FALSE, bits |-> NatBits(n, 0)]
            ELSE [neg |-> TRUE, bits |-> NatBits(-n - 1, 0)]

\* a < b for Python integers: with equal signs the highest position where
\* the two differ decides
Less(a, b) ==
    IF a.neg # b.neg THEN a.neg
    ELSE LET D == (a.bits \ b.bits) \cup (b.bits \ a.bits)
         IN  /\ D # {}
             /\ (CHOOSE i \in D : \A j \in D : i >= j)
                    \in (IF a.neg THEN a.bits ELSE b.bits)

\* bool as the integer it is
Bool(b) == IF b THEN [neg |-> FALSE, bits |-> {0}] ELSE Zero

\* 0 <= a < 2^nbits
FitsWord(a, nbits) == ~a.neg /\ a.bits \subseteq 0 .. (nbits - 1)

\* byte k of a non-negative integer, as an integer in 0 .. 255
ByteOf(a, k) == BitAnd(Shr(a, 8 * k), FullMask(8))

Min(S) == CHOOSE x \in S : \A y \in S : x <= y

Max(S) == CHOOSE x \in S : \A y \in S : x >= y

---------------------------------------------------------------------------
(* Device layer: the memory backed debug devices *)

NoError == "none"

\* what one raw primitive call looked like
RawOp(op, addr, value, size) ==
    [op |-> op, addr |-> addr, value |-> value, size |-> size]

\* RegfileDevSimpleDebug.getvalue / RegfileDevSubwordDebug.getvalue:
\* a word of the simple device is one dictionary entry, a word of the
\* subword device is put together from n_word_bytes byte entries
getvalue(d, m, addr) ==
    IF d.kind = "simple" THEN m[addr]
    ELSE [neg |-> FALSE,
          bits |-> UNION {{b + 8 * i : b \in m[addr + i].bits} :
                          i \in 0 .. (d.n_word_bytes - 1)}]

\* rfdev_read of the debug devices; fail = "read": the backend raises
rfdev_read(d, ds, addr, fail) ==
    IF ds.error # NoError THEN ds
    ELSE IF fail = "read"
    THEN [ds EXCEPT !.rawlog = Append(@, RawOp("raw_read", addr, Zero, d.n_word_bytes)),
                    !.error = "BackendError"]
    ELSE [ds EXCEPT !.rawlog = Append(@, RawOp("raw_read", addr, getvalue(d, ds.mem, addr),
                                               d.n_word_bytes))]

\* RegfileDevSimpleDebug.rfdev_write_simple; fail = "write": the backend raises
rfdev_write_simple(d, ds, addr, value, fail) ==
    IF ds.error # NoError THEN ds
    ELSE IF fail = "write"
    THEN [ds EXCEPT !.rawlog = Append(@, RawOp("raw_write_simple", addr, value, d.n_word_bytes)),
                    !.error = "BackendError"]
    ELSE [ds EXCEPT !.rawlog = Append(@, RawOp("raw_write_simple", addr, value, d.n_word_bytes)),
                    !.mem = [@ EXCEPT ![addr] = value]]

\* RegfileDevSubwordDebug.rfdev_write_subword: value.to_bytes raises
\* OverflowError for a value outside the word, byte_values[i + addr & 0b11]
\* raises IndexError once the index leaves the word, after the bytes before it
\* have been stored
rfdev_write_subword(d, ds, addr, value, size, fail) ==
    LET logged == [ds EXCEPT !.rawlog = Append(@, RawOp("raw_write_subword", addr, value, size))]
        bad    == {i \in 0 .. (size - 1) : (i + addr) % 4 >= d.n_word_bytes}
        n_ok   == IF bad = {} THEN size ELSE Min(bad)
        stored == [a \in DOMAIN ds.mem |->
                     IF a >= addr /\ a < addr + n_ok THEN ByteOf(value, a % 4)
                     ELSE ds.mem[a]]
    IN  IF ds.error # NoError THEN ds
        ELSE IF fail = "write" THEN [logged EXCEPT !.error = "BackendError"]
        ELSE IF ~FitsWord(value, 8 * d.n_word_bytes)
        THEN [logged EXCEPT !.error = "OverflowError"]
        ELSE IF bad # {} THEN [logged EXCEPT !.mem = stored, !.error = "IndexError"]
        ELSE [logged EXCEPT !.mem = stored]

\* RegfileDevSimple.rfdev_write that forgets rmw_value &= ~mask
Mutant_SimpleWriteNoClear(d, ds, addr, value, mask, write_mask, fail) ==
    LET keep_mask == BitAnd(BitNot(mask), write_mask)
        ds1       == rfdev_read(d, ds, addr, fail)
        rmw_value == BitOr(getvalue(d, ds.mem, addr), BitAnd(value, mask))
    IN  IF keep_mask = Zero
        THEN rfdev_write_simple(d, ds, addr, value, fail)
        ELSE rfdev_write_simple(d, ds1, addr, rmw_value, fail)

\* RegfileDevSimple.rfdev_write
RegfileDevSimple_rfdev_write(d, ds, addr, value, mask, write_mask, fail) ==
    LET keep_mask == BitAnd(BitNot(mask), write_mask)
        ds1       == rfdev_read(d, ds, addr, fail)
        rmw_value == BitOr(BitAnd(getvalue(d, ds.mem, addr), BitNot(mask)),
                           BitAnd(value, mask))
    IN  IF keep_mask = Zero
        THEN rfdev_write_simple(d, ds, addr, value, fail)
        ELSE rfdev_write_simple(d, ds1, addr, rmw_value, fail)

\* the for loop of RegfileDevSubword.rfdev_write: the first slot i of
\* n_subword_bytes bytes that passes the test, -1 when the loop runs out
RECURSIVE SubwordFor(_, _, _, _, _, _)
SubwordFor(n_word_bytes, n_subword_bytes, subword_mask, keep_mask, mask, i) ==
    IF i >= n_word_bytes \div n_subword_bytes THEN -1
    ELSE LET i_word_mask == Shl(subword_mask, i * n_subword_bytes * 8)
         IN  IF BitAnd(keep_mask, i_word_mask) = Zero
                /\ BitAnd(mask, BitNot(i_word_mask)) = Zero
             THEN i
             ELSE SubwordFor(n_word_bytes, n_subword_bytes, subword_mask,
                             keep_mask, mask, i + 1)

\* the while loop with its last two statements swapped: the mask is shifted by
\* the size before it is halved
RECURSIVE Mutant_SubwordWhileSwapped(_, _, _, _, _)
Mutant_SubwordWhileSwapped(n_word_bytes, n_subword_bytes, subword_mask, keep_mask, mask) ==
    IF n_subword_bytes = 0 THEN [found |-> FALSE, size |-> 0, i |-> 0]
    ELSE LET i == SubwordFor(n_word_bytes, n_subword_bytes, subword_mask,
                             keep_mask, mask, 0)
         IN  IF i >= 0 THEN [found |-> TRUE, size |-> n_subword_bytes, i |-> i]
             ELSE Mutant_SubwordWhileSwapped(n_word_bytes, n_subword_bytes \div 2,
                               Shr(subword_mask, n_subword_bytes * 8),
                               keep_mask, mask)

\* the while loop of RegfileDevSubword.rfdev_write: n_subword_bytes //= 2 and
\* subword_mask >>= n_subword_bytes * 8 after each size without a match
RECURSIVE SubwordWhile(_, _, _, _, _)
SubwordWhile(n_word_bytes, n_subword_bytes, subword_mask, keep_mask, mask) ==
    IF n_subword_bytes = 0 THEN [found |-> FALSE, size |-> 0, i |-> 0]
    ELSE LET i == SubwordFor(n_word_bytes, n_subword_bytes, subword_mask,
                             keep_mask, mask, 0)
         IN  IF i >= 0 THEN [found |-> TRUE, size |-> n_subword_bytes, i |-> i]
             ELSE SubwordWhile(n_word_bytes, n_subword_bytes \div 2,
                               Shr(subword_mask, (n_subword_bytes \div 2) * 8),
                               keep_mask, mask)

\* RegfileDevSubword.rfdev_write
RegfileDevSubword_rfdev_write(d, ds, addr, value, mask, write_mask, fail) ==
    LET keep_mask == BitAnd(BitNot(mask), write_mask)
        slot      == SubwordWhile(d.n_word_bytes, d.n_word_bytes,
                                  FullMask(8 * d.n_word_bytes), keep_mask, mask)
        ds1       == rfdev_read(d, ds, addr, fail)
        rmw_value == BitOr(BitAnd(getvalue(d, ds.mem, addr), BitNot(mask)),
                           BitAnd(value, mask))
    IN  IF slot.found
        THEN rfdev_write_subword(d, ds, addr + slot.i * slot.size, value, slot.size, fail)
        ELSE rfdev_write_subword(d, ds1, addr, rmw_value, d.n_word_bytes, fail)

\* rfdev_write of whichever device class dev is
rfdev_write(d, ds, addr, value, mask, write_mask, fail) ==
    IF d.kind = "simple"
    THEN RegfileDevSimple_rfdev_write(d, ds, addr, value, mask, write_mask, fail)
    ELSE RegfileDevSubword_rfdev_write(d, ds, addr, value, mask, write_mask, fail)

---------------------------------------------------------------------------
(* Entry layer: RegisterField, RegisterEntry, RegfileEntry, Regfile *)

\* an operation runs on a context: the values it may change, what it issued,
\* the warnings it emitted, the exception it raised (if any) and its result
Ctx == [desired_value |-> desired_value, mirrored_value |-> mirrored_value,
        mem |-> mem, rawlog |-> <<>>, devlog |-> <<>>, error |-> NoError,
        warnings |-> {}, ret |-> Zero]

DevOp(op, addr, value, mask, write_mask) ==
    [op |-> op, addr |-> addr, value |-> value, mask |-> mask,
     write_mask |-> write_mask]

\* _regfile_warn_user
Warn(x, w) == [x EXCEPT !.warnings = @ \cup {w}]

\* RegisterField.get_mask: (1 << (msb + 1)) - (1 << lsb)
get_mask(field) == BitRange(field.msb, field.lsb)

\* RegisterField.get_field
get_field(field, value) == Shr(BitAnd(value, get_mask(field)), field.lsb)

\* RegisterEntry._fit_fieldvalue: the truncated value
fit_fieldvalue(field, value) == BitAnd(value, Shr(get_mask(field), field.lsb))

\* RegisterEntry._fit_fieldvalue: its warning
fit_fieldvalue_warn(x, field, value) ==
    IF value # fit_fieldvalue(field, value) THEN Warn(x, "truncated") ELSE x

\* RegisterEntry._fit_fieldvalue_for_write: its warnings
fit_fieldvalue_for_write_warn(x, field, value) ==
    fit_fieldvalue_warn(
        IF BitAnd(get_mask(field), entry.write_mask) # get_mask(field)
        THEN Warn(x, "read_only") ELSE x,
        field, value)

\* setfunc that assigns the shifted field value to desired_value instead of
\* merging it
Mutant_SetfuncOverwrite(x, field, value) ==
    [fit_fieldvalue_for_write_warn(x, field, value) EXCEPT
        !.desired_value = Shl(fit_fieldvalue(field, value), field.lsb)]

\* the closure setfunc that RegisterEntry.field attaches as field.set
setfunc(x, field, value) ==
    [fit_fieldvalue_for_write_warn(x, field, value) EXCEPT
        !.desired_value =
            BitOr(BitAnd(x.desired_value, BitNot(get_mask(field))),
                  Shl(fit_fieldvalue(field, value), field.lsb))]

\* RegfileDev.read
RegfileDev_read(x, baseaddr, fail) ==
    LET addr == baseaddr + entry.addr
        x1   == rfdev_read(dev, x, addr, fail)
    IN  IF x1.error # NoError THEN x1
        ELSE [x1 EXCEPT !.ret = getvalue(dev, x.mem, addr)]

\* RegfileDev.write
RegfileDev_write(x, baseaddr, value, mask, fail) ==
    rfdev_write(dev, x, baseaddr + entry.addr, value, mask, entry.write_mask, fail)

\* Regfile._read
Regfile_read(x, fail) ==
    RegfileDev_read([x EXCEPT !.devlog = Append(@, DevOp("read",
                         regfile.base_addr + entry.addr, Zero, Zero, Zero))],
                    regfile.base_addr, fail)

\* Regfile._write
Regfile_write(x, value, mask, fail) ==
    LET value_mask == FullMask(8 * dev.n_word_bytes)
        regvalue   == BitAnd(value, value_mask)
        x1         == IF value # regvalue THEN Warn(x, "too_large") ELSE x
    IN  RegfileDev_write([x1 EXCEPT !.devlog = Append(@, DevOp("write",
                              regfile.base_addr + entry.addr, value, mask,
                              entry.write_mask))],
                         regfile.base_addr, value, mask, fail)

\* RegisterEntry._set_value
RegisterEntry_set_value(x, value, mask) ==
    LET desired == BitOr(BitAnd(x.desired_value, BitNot(mask)), BitAnd(value, mask))
    IN  [x EXCEPT !.desired_value = desired, !.mirrored_value = desired]

\* RegfileEntry._set_value
RegfileEntry_set_value(x, value, mask, fail) ==
    Regfile_write(RegisterEntry_set_value(x, value, mask), value, mask, fail)

\* _set_value of the entry's class
set_value_impl(x, value, mask, fail) ==
    IF entry.bound THEN RegfileEntry_set_value(x, value, mask, fail)
    ELSE RegisterEntry_set_value(x, value, mask)

\* RegisterEntry._get_value
RegisterEntry_get_value(x) == [x EXCEPT !.ret = x.mirrored_value]

\* RegfileEntry._get_value that forgets self.desired_value = value
Mutant_GetValueMirroredOnly(x, fail) ==
    LET x1 == Regfile_read(x, fail)
        x2 == IF x1.desired_value # x1.mirrored_value THEN Warn(x1, "stale") ELSE x1
    IN  IF x1.error # NoError THEN x1
        ELSE [x2 EXCEPT !.mirrored_value = x1.ret]

\* RegfileEntry._get_value that tests needs_update() after the assignments
Mutant_GetValueLateCheck(x, fail) ==
    LET x1 == Regfile_read(x, fail)
    IN  IF x1.error # NoError THEN x1
        ELSE [x1 EXCEPT !.desired_value = x1.ret, !.mirrored_value = x1.ret]

\* RegfileEntry._get_value
RegfileEntry_get_value(x, fail) ==
    LET x1 == Regfile_read(x, fail)
        x2 == IF x1.desired_value # x1.mirrored_value THEN Warn(x1, "stale") ELSE x1
    IN  IF x1.error # NoError THEN x1
        ELSE [x2 EXCEPT !.desired_value = x1.ret, !.mirrored_value = x1.ret]

\* _get_value of the entry's class
get_value_impl(x, fail) ==
    IF entry.bound THEN RegfileEntry_get_value(x, fail)
    ELSE RegisterEntry_get_value(x)

\* RegisterEntry.update that writes the mirrored value
Mutant_UpdateMirrored(x, fail) ==
    set_value_impl(x, x.mirrored_value, entry.write_mask, fail)

\* RegisterEntry.update
RegisterEntry_update(x, fail) ==
    set_value_impl(x, x.desired_value, entry.write_mask, fail)

\* RegisterEntry.set_value with an integer (mask defaults to write_mask)
RegisterEntry_set_value_int(x, value, fail) ==
    set_value_impl(x, value, entry.write_mask, fail)

\* RegisterEntry.__setitem__ that does not shift the value to the field
Mutant_SetitemUnshifted(x, field, value, fail) ==
    set_value_impl(fit_fieldvalue_for_write_warn(x, field, value),
                   fit_fieldvalue(field, value), get_mask(field), fail)

\* RegisterEntry.__setitem__ for a field of the entry
RegisterEntry_setitem(x, field, value, fail) ==
    set_value_impl(fit_fieldvalue_for_write_warn(x, field, value),
                   Shl(fit_fieldvalue(field, value), field.lsb),
                   get_mask(field), fail)

\* the field of the entry with this name (the entry has one)
FieldOf(name) == CHOOSE field \in entry.fields : field.name = name

\* the names of the fields of the entry
FieldNames == {field.name : field \in entry.fields}

\* RegisterEntry.__getitem__ that reads before it looks the name up
Mutant_GetitemReadFirst(x, name, fail) ==
    LET x1 == get_value_impl(x, fail)
    IN  IF x1.error # NoError THEN x1
        ELSE IF name \in FieldNames
             THEN [x1 EXCEPT !.ret = get_field(FieldOf(name), x1.ret)]
             ELSE [x1 EXCEPT !.error = "KeyError"]

\* RegisterEntry.__getitem__
RegisterEntry_getitem(x, name, fail) ==
    IF name \in FieldNames
    THEN LET x1 == get_value_impl(x, fail)
         IN  IF x1.error # NoError THEN x1
             ELSE [x1 EXCEPT !.ret = get_field(FieldOf(name), x1.ret)]
    ELSE [x EXCEPT !.error = "KeyError"]

\* RegisterEntry._set_writeable_fieldnames: the names it stores
set_writeable_fieldnames(fields, write_mask) ==
    {field.name : field \in {f \in fields :
                      BitAnd(get_mask(f), write_mask) = get_mask(f)}}

\* the loop of RegisterEntry.set_value over the items of the mapping: returns
\* the context with its warnings, the composed value in ret and the writable
\* names that were not supplied
RECURSIVE SetValueLoop(_, _, _, _)
SetValueLoop(x, todo, args, writable_fieldnames) ==
    IF todo = {} THEN [x |-> x, writable_fieldnames |-> writable_fieldnames]
    ELSE LET fieldname == CHOOSE n \in todo : TRUE
             rest      == todo \ {fieldname}
         IN  IF fieldname \in writable_fieldnames
             THEN LET field == FieldOf(fieldname)
                      x1    == fit_fieldvalue_for_write_warn(x, field, args[fieldname])
                  IN  SetValueLoop(
                          [x1 EXCEPT !.ret = BitOr(@,
                              Shl(fit_fieldvalue(field, args[fieldname]), field.lsb))],
                          rest, args, writable_fieldnames \ {fieldname})
             ELSE IF fieldname \notin FieldNames
             THEN SetValueLoop(Warn(x, "nonexistent"), rest, args, writable_fieldnames)
             ELSE SetValueLoop(x, rest, args, writable_fieldnames)

\* RegisterEntry.set_value with a mapping that composes the value on top of
\* the mirrored value
Mutant_SetValueDictOnMirrored(x, args, fail) ==
    LET loop == SetValueLoop([x EXCEPT !.ret = x.mirrored_value], DOMAIN args,
                             args, entry.writable_fieldnames)
        x1   == IF loop.writable_fieldnames # {}
                THEN Warn(loop.x, "not_set") ELSE loop.x
    IN  set_value_impl([x1 EXCEPT !.ret = Zero], x1.ret, entry.write_mask, fail)

\* RegisterEntry.set_value with a mapping of field names to values
RegisterEntry_set_value_dict(x, args, fail) ==
    LET loop == SetValueLoop([x EXCEPT !.ret = Zero], DOMAIN args, args,
                             entry.writable_fieldnames)
        x1   == IF loop.writable_fieldnames # {}
                THEN Warn(loop.x, "not_set") ELSE loop.x
    IN  set_value_impl([x1 EXCEPT !.ret = Zero], x1.ret, entry.write_mask, fail)

\* a Python value handed to set_value: its type and, for an int or a dict,
\* what it holds
PyValue(type, int, dict) == [type |-> type, int |-> int, dict |-> dict]

\* RegisterEntry.set_value that takes every value that is no dict for a number
Mutant_SetValueCoerces(x, value, fail) ==
    IF value.type = "dict" THEN RegisterEntry_set_value_dict(x, value.dict, fail)
    ELSE RegisterEntry_set_value_int(x, value.int, fail)

\* RegisterEntry.set_value: the branches on the type of the value (the branch
\* for a RegisterEntry value is not modelled)
set_value(x, value, fail) ==
    IF value.type = "int" THEN RegisterEntry_set_value_int(x, value.int, fail)
    ELSE IF value.type = "dict"
    THEN RegisterEntry_set_value_dict(x, value.dict, fail)
    ELSE [x EXCEPT !.error = "TypeError"]

\* RegisterEntry.write with one positional argument
RegisterEntry_write(x, value, fail) == set_value(x, value, fail)

\* Regfile.__setitem__ for the name of the entry
Regfile_setitem(x, value, fail) == RegisterEntry_write(x, value, fail)

\* RegisterEntry.set
RegisterEntry_set(x, value) == [x EXCEPT !.desired_value = value]

\* RegisterEntry.reset that leaves the mirrored value alone
Mutant_ResetDesiredOnly(x) == [x EXCEPT !.desired_value = entry.reset]

\* RegisterEntry.reset
RegisterEntry_reset(x) ==
    [x EXCEPT !.desired_value = entry.reset, !.mirrored_value = entry.reset]

---------------------------------------------------------------------------
(* The structure of a Regfile: its entries, their fields and the freezing of
   the instances *)

\* the instance attributes RegisterEntry.__init__ creates
EntryDict ==
    {"_frozen", "addr", "write_mask", "_fields", "regfile", "name", "_reset",
     "mirrored_value", "desired_value", "_writable_fieldnames",
     "_userattributes"}

\* the instance attributes Regfile.__init__ creates
FileDict ==
    {"_frozen", "_dev", "_Regfile__value_mask", "_Regfile__base_addr",
     "_entries", "_name"}

\* the result of a call on an object: the object as the call left it and the
\* exception raised (if any)
Result(obj, error) == [obj |-> obj, error |-> error]

\* RegisterEntry.represent(**kwargs) for the keywords write_mask, fields and
\* regfile; kwargs maps the keywords that are given to their values
RegisterEntry_represent(e, kwargs) ==
    LET e1 == IF "write_mask" \in DOMAIN kwargs
              THEN [e EXCEPT !.write_mask = kwargs.write_mask] ELSE e
        e2 == IF "fields" \in DOMAIN kwargs
              THEN [e1 EXCEPT !.fields = kwargs.fields] ELSE e1
        e3 == IF "regfile" \in DOMAIN kwargs
              THEN [e2 EXCEPT !.bound = TRUE] ELSE e2
        e4 == IF "reset" \in DOMAIN kwargs
              THEN [e3 EXCEPT !.reset = kwargs.reset] ELSE e3
        e5 == IF "mirrored_value" \in DOMAIN kwargs
              THEN [e4 EXCEPT !.mirrored_value = kwargs.mirrored_value,
                              !.desired_value = kwargs.mirrored_value]
              ELSE e4
    IN  [e5 EXCEPT !.writable_fieldnames =
                       set_writeable_fieldnames(e5.fields, e5.write_mask),
                   !.frozen = TRUE]

\* RegisterEntry.__init__: represent(**kwargs) is called when there are kwargs
RegisterEntry_init(kwargs) ==
    LET e == [frozen |-> FALSE, dict |-> EntryDict, bound |-> FALSE,
              write_mask |-> MinusOne, fields |-> {}, writable_fieldnames |-> {},
              reset |-> Zero, mirrored_value |-> Zero, desired_value |-> Zero,
              declared |-> {}]
    IN  IF DOMAIN kwargs # {} THEN RegisterEntry_represent(e, kwargs) ELSE e

\* RegisterEntry.__setattr__ that does not test _frozen
Mutant_EntrySetattrUnchecked(e, name, value) ==
    Result([e EXCEPT !.dict = @ \cup {name},
                     !.write_mask = IF name = "write_mask" THEN value ELSE @],
           NoError)

\* RegisterEntry.__setattr__
RegisterEntry_setattr(e, name, value) ==
    IF e.frozen /\ name \notin e.dict
    THEN Result(e, "AttributeError")
    ELSE Result([e EXCEPT !.dict = @ \cup {name},
                          !.write_mask = IF name = "write_mask" THEN value ELSE @],
                NoError)

\* int(literal, 0) for the reset literals of the model
ParseInt(literal) ==
    CASE literal = "0x0"  -> Zero
      [] literal = "22"   -> PyInt(22)
      [] literal = "0x16" -> PyInt(22)
      [] literal = "0x3f" -> PyInt(63)
      [] literal = "0b1"  -> PyInt(1)

\* add_field, the callback behind the handle RegisterEntry.__enter__ returns:
\* self._fields[key] = field, and the reset literal of the field (if it has
\* one) is ORed into the reset value; declared collects the fields added
add_field(e, field) ==
    LET e1 == [e EXCEPT !.fields = {f \in @ : f.name # field.name} \cup {field},
                        !.declared = @ \cup {field}]
    IN  IF "reset" \in DOMAIN field
        THEN LET reset      == Shl(ParseInt(field.reset), field.lsb)
                 truncreset == BitAnd(reset, get_mask(field))
                 new        == BitOr(e.reset, truncreset)
             IN  [e1 EXCEPT !.reset = new, !.desired_value = new,
                            !.mirrored_value = new]
        ELSE e1

\* RegisterEntry.__exit__
RegisterEntry_exit(e) ==
    [e EXCEPT !.writable_fieldnames = set_writeable_fieldnames(e.fields, e.write_mask)]

\* RegisterEntry.get_reg: a new RegisterEntry that shares the fields
get_reg(e, value) ==
    RegisterEntry_init(
        IF e.bound
        THEN [write_mask |-> e.write_mask, fields |-> e.fields, regfile |-> TRUE,
              reset |-> e.reset, mirrored_value |-> value]
        ELSE [write_mask |-> e.write_mask, fields |-> e.fields,
              reset |-> e.reset, mirrored_value |-> value])

\* RegisterEntry.reset of an entry object of the file
reset_entry(e) ==
    [e EXCEPT !.desired_value = e.reset, !.mirrored_value = e.reset]

\* Regfile.reset_all that resets the first entry only
Mutant_ResetAllFirstOnly(es) ==
    [k \in DOMAIN es |->
        IF k = (CHOOSE j \in DOMAIN es : TRUE) THEN reset_entry(es[k])
        ELSE es[k]]

\* Regfile.reset_all: reset() of every entry
Regfile_reset_all(es) == [k \in DOMAIN es |-> reset_entry(es[k])]

\* Regfile.__getitem__ that adds the entry whether frozen or not
Mutant_GetitemAlwaysAdds(f, es, key) ==
    IF key \in DOMAIN es THEN Result(es, NoError)
    ELSE Result([k \in DOMAIN es \cup {key} |->
                    IF k = key THEN RegisterEntry_init([regfile |-> TRUE])
                    ELSE es[k]], NoError)

\* Regfile.__getitem__ of the file f with the entries es
Regfile_getitem(f, es, key) ==
    IF key \in DOMAIN es THEN Result(es, NoError)
    ELSE IF ~f.frozen
    THEN Result([k \in DOMAIN es \cup {key} |->
                    IF k = key THEN RegisterEntry_init([regfile |-> TRUE])
                    ELSE es[k]], NoError)
    ELSE Result(es, "KeyError")

\* Regfile.__setattr__
Regfile_setattr(f, name) ==
    IF f.frozen /\ name \notin f.dict
    THEN Result(f, "AttributeError")
    ELSE Result([f EXCEPT !.dict = @ \cup {name}], NoError)

\* Regfile.__getattr__: the entry for a name of the form <register>_r
Regfile_getattr(es, name) ==
    IF \E k \in DOMAIN es : name = k \o "_r"
    THEN Result(CHOOSE k \in DOMAIN es : name = k \o "_r", NoError)
    ELSE Result("", "AttributeError")

\* Regfile.__enter__
Regfile_enter(f) == [f EXCEPT !.frozen = FALSE]

\* Regfile.__exit__
Regfile_exit(f) == [f EXCEPT !.frozen = TRUE]

---------------------------------------------------------------------------
(* Inputs of the model *)

Field(name, msb, lsb) == [name |-> name, msb |-> msb, lsb |-> lsb]

\* reg0 is the register of the class documentation (write_mask 0x1F, cfg 4:0,
\* status 31:16), reg1 keeps the default write_mask -1, the third entry is a
\* plain RegisterEntry that belongs to no Regfile
EntryInputs ==
    { [name |-> "reg0", bound |-> TRUE, addr |-> 8, write_mask |-> PyInt(31),
       fields |-> {Field("cfg", 4, 0), Field("status", 31, 16)},
       reset |-> Zero],
      [name |-> "reg1", bound |-> TRUE, addr |-> 12, write_mask |-> MinusOne,
       fields |-> {Field("data", 7, 0), Field("flag", 8, 8)},
       reset |-> PyInt(90)],
      [name |-> "UNNAMED", bound |-> FALSE, addr |-> 0, write_mask |-> MinusOne,
       fields |-> {Field("lo", 3, 0), Field("hi", 7, 4)},
       reset |-> PyInt(3)] }

\* represent ends with _set_writeable_fieldnames
EntryConfigs ==
    { [name |-> e.name, bound |-> e.bound, addr |-> e.addr,
       write_mask |-> e.write_mask, fields |-> e.fields, reset |-> e.reset,
       writable_fieldnames |-> set_writeable_fieldnames(e.fields, e.write_mask)]
      : e \in EntryInputs }

RegfileConfig == [base_addr |-> 8]

\* values handed to field sets and field writes: 0x16 fits every field that is
\* five bits or wider, 0x3f is truncated by the narrower ones
FieldValues == {PyInt(22), PyInt(63)}

\* values handed to set() and write(): 0x16 and 2^32 + 9, too large for a
\* four byte word
WordValues == {PyInt(22), [neg |-> FALSE, bits |-> {0, 3, 32}]}

\* what the backend does during an operation: nothing special, raise in the
\* raw read, raise in the raw write
Faults == {"none", "read", "write"}

\* initial memory content (the debug devices draw it at random)
MemPatterns == {"zeros", "ramp"}

InitByte(pat, a) ==
    CASE pat = "zeros" -> Zero
      [] pat = "ones"  -> FullMask(8)
      [] pat = "ramp"  -> PyInt(a + 1)

InitMem(d, addrs, pat) ==
    LET bytes == [a \in addrs \cup {a + i : a \in addrs, i \in 0 .. (d.n_word_bytes - 1)}
                    |-> InitByte(pat, a)]
    IN  IF d.kind = "simple"
        THEN [a \in addrs |-> getvalue([d EXCEPT !.kind = "subword"], bytes, a)]
        ELSE [a \in addrs |-> bytes[a]]

NoCall == [addr |-> 0, value |-> Zero, mask |-> Zero, write_mask |-> Zero]

NoEntry == [name |-> "", bound |-> FALSE, addr |-> 0, write_mask |-> Zero,
            fields |-> {}, reset |-> Zero, writable_fieldnames |-> {}]

\* the structure of the Regfile is not under test: the file is sealed
NoStructure ==
    /\ file = [frozen |-> TRUE, dict |-> FileDict]
    /\ entries = [k \in {} |-> NoEntry]
    /\ handles = {}
    /\ scopes = {}

\* no snapshot has been taken and no field has a set() callback
NoSnapshot ==
    /\ snapshot = [taken |-> FALSE, mirrored_value |-> Zero, desired_value |-> Zero]
    /\ setfunc_owner = [name \in {} |-> "none"]

\* the arguments of an operation that takes none
NoArgs == [name \in {} |-> Zero]

Last(op, field, fail, x) ==
    [op |-> op, field |-> field, args |-> NoArgs, error |-> x.error,
     pending |-> (desired_value # mirrored_value),
     ret |-> x.ret, warnings |-> x.warnings]

---------------------------------------------------------------------------
(* The entry level specification: one entry of a sealed Regfile (or a plain
   RegisterEntry) and the operations a caller may invoke on it *)

Init ==
    /\ dev \in {[kind |-> k, n_word_bytes |-> 4] : k \in {"simple", "subword"}}
    /\ regfile = RegfileConfig
    /\ entry \in EntryConfigs
    /\ \E pat \in MemPatterns :
          mem = InitMem(dev, (regfile.base_addr + entry.addr) ..
                             (regfile.base_addr + entry.addr + dev.n_word_bytes - 1), pat)
    /\ call = NoCall
    /\ rawlog = <<>>
    /\ devlog = <<>>
    /\ mirrored_value = entry.reset
    /\ desired_value = entry.reset
    /\ staged = FALSE
    /\ nops = 0
    /\ last = [op |-> "init", field |-> "", args |-> NoArgs, error |-> NoError,
               pending |-> FALSE, ret |-> Zero, warnings |-> {}]
    /\ NoStructure
    /\ NoSnapshot

\* the operation, called with the field values args, ran in context x: take
\* over what it left behind
FinishArgs(op, field, args, fail, x, nowstaged) ==
    /\ desired_value' = x.desired_value
    /\ mirrored_value' = x.mirrored_value
    /\ mem' = x.mem
    /\ rawlog' = x.rawlog
    /\ devlog' = x.devlog
    /\ staged' = nowstaged
    /\ nops < MaxOps
    /\ nops' = nops + 1
    /\ last' = [Last(op, field, fail, x) EXCEPT !.args = args]
    /\ UNCHANGED <<dev, regfile, entry, call>>
    /\ UNCHANGED structvars
    /\ UNCHANGED <<snapshot, setfunc_owner>>

\* the same for an operation without field values
Finish(op, field, fail, x, nowstaged) ==
    FinishArgs(op, field, NoArgs, fail, x, nowstaged)

\* a fault can only be injected where there is a backend
FaultsHere == IF entry.bound THEN Faults ELSE {"none"}

\* after a transfer or reset that returned, nothing is staged any more
Cleared(x) == IF x.error = NoError THEN FALSE ELSE staged

\* entry.field(name).set(value)
FieldSet ==
    \E field \in entry.fields, value \in FieldValues :
        FinishArgs("field_set", field.name, field.name :> value, "none",
                   setfunc(Ctx, field, value), TRUE)

\* entry.set(value)
Set ==
    \E value \in WordValues :
        Finish("set", "", "none", RegisterEntry_set(Ctx, value), TRUE)

\* entry.update()
Update ==
    \E fail \in FaultsHere :
        LET x == RegisterEntry_update(Ctx, fail)
        IN  Finish("update", "", fail, x, Cleared(x))

\* entry.write(value) / entry.set_value(value) with an integer
Write ==
    \E value \in WordValues, fail \in FaultsHere :
        LET x == RegisterEntry_set_value_int(Ctx, value, fail)
        IN  Finish("write", "", fail, x, Cleared(x))

\* entry[name] = value
SetItem ==
    \E field \in entry.fields, value \in FieldValues, fail \in FaultsHere :
        LET x == RegisterEntry_setitem(Ctx, field, value, fail)
        IN  FinishArgs("setitem", field.name, field.name :> value, fail, x,
                       Cleared(x))

\* entry.read() / entry.get_value()
Read ==
    \E fail \in FaultsHere :
        LET x == get_value_impl(Ctx, fail)
        IN  Finish("read", "", fail, x, Cleared(x))

\* entry.reset()
Reset ==
    Finish("reset", "", "none", RegisterEntry_reset(Ctx), FALSE)

Next == FieldSet \/ Set \/ Update \/ Write \/ SetItem \/ Read \/ Reset

Spec == Init /\ [][Next]_vars

----------------------------------------------------------------------------
(* The comparison level specification: an entry is compared with integers *)

\* the rich comparison methods of RegisterEntry
CompareOps == {"__eq__", "__ne__", "__lt__", "__le__", "__gt__", "__ge__"}

\* a OP b on integers
Compares(op, a, b) ==
    CASE op = "__eq__" -> a = b
      [] op = "__ne__" -> a # b
      [] op = "__lt__" -> Less(a, b)
      [] op = "__le__" -> Less(a, b) \/ a = b
      [] op = "__gt__" -> Less(b, a)
      [] op = "__ge__" -> Less(b, a) \/ a = b

\* RegisterEntry.__eq__ that compares the mirrored value without get_value()
Mutant_CompareMirrored(x, op, other, fail) ==
    [x EXCEPT !.ret = Bool(Compares(op, x.mirrored_value, other))]

\* RegisterEntry.__eq__ .. __ge__: int(self) OP int(other), where int(self) is
\* get_value()
RegisterEntry_compare(x, op, other, fail) ==
    LET x1 == get_value_impl(x, fail)
    IN  IF x1.error # NoError THEN x1
        ELSE [x1 EXCEPT !.ret = Bool(Compares(op, x1.ret, other))]

\* entry OP n for n = -1, 0, 0x16
Compare ==
    \E op \in CompareOps, n \in {MinusOne, Zero, PyInt(22)}, fail \in FaultsHere :
        LET x == RegisterEntry_compare(Ctx, op, n, fail)
        IN  FinishArgs(op, "", "other" :> n, fail, x, Cleared(x))

NextCmp ==
    \/ (nops < MaxCmpOps /\ Compare)
    \/ (nops < MaxCmpOps /\ Set)
    \/ (nops < MaxCmpOps /\ Write)
    \/ (nops < MaxCmpOps /\ Reset)

SpecCmp == Init /\ [][NextCmp]_vars

----------------------------------------------------------------------------
(* The snapshot level specification: a file-bound entry, the RegisterEntry
   that read_entry() returns for it, and the set() callbacks of the
   RegisterField objects the two share through _fields *)

\* RegisterEntry.get_reg() / read_entry(): the value comes from _get_value(),
\* the new RegisterEntry holds it as mirrored and desired value
read_entry(z, fail) ==
    LET x1 == get_value_impl(z.x, fail)
    IN  IF x1.error # NoError THEN [z EXCEPT !.x = x1]
        ELSE [z EXCEPT !.x = x1,
                       !.snapshot = [taken |-> TRUE, mirrored_value |-> x1.ret,
                                     desired_value |-> x1.ret]]

\* RegisterEntry.field called on self (the entry or the snapshot): a field
\* object without _has_setfunc gets the closure of this self, a field object
\* that has one keeps it
RegisterEntry_field(z, self, name) ==
    IF name \in DOMAIN z.setfunc_owner THEN z
    ELSE [z EXCEPT !.setfunc_owner = @ @@ (name :> self)]

\* field.set(value): the closure works on the object it was made for
field_set(z, name, value) ==
    IF z.setfunc_owner[name] = "entry"
    THEN [z EXCEPT !.x = setfunc(z.x, FieldOf(name), value)]
    ELSE LET y == setfunc([z.x EXCEPT !.desired_value = z.snapshot.desired_value],
                          FieldOf(name), value)
         IN  [z EXCEPT !.x.warnings = y.warnings,
                       !.snapshot.desired_value = y.desired_value]

\* snapshot[name]: RegisterEntry.__getitem__ with RegisterEntry._get_value
snapshot_getitem(z, name) ==
    [z EXCEPT !.x.ret = get_field(FieldOf(name), z.snapshot.mirrored_value)]

\* snapshot[name] = value: RegisterEntry.__setitem__ with
\* RegisterEntry._set_value
snapshot_setitem(z, name, value) ==
    LET field == FieldOf(name)
        y == RegisterEntry_set_value(
                 fit_fieldvalue_for_write_warn(
                     [z.x EXCEPT !.desired_value = z.snapshot.desired_value,
                                 !.mirrored_value = z.snapshot.mirrored_value],
                     field, value),
                 Shl(fit_fieldvalue(field, value), field.lsb), get_mask(field))
    IN  [z EXCEPT !.x.warnings = y.warnings,
                  !.snapshot.desired_value = y.desired_value,
                  !.snapshot.mirrored_value = y.mirrored_value]

\* the loops of RegisterEntry.write_update over the items of the mapping
RECURSIVE WriteUpdateLoop(_, _, _)
WriteUpdateLoop(z, todo, args) ==
    IF todo = {} THEN z
    ELSE LET name == CHOOSE n \in todo : TRUE
         IN  WriteUpdateLoop(field_set(RegisterEntry_field(z, "entry", name), name,
                                       args[name]),
                             todo \ {name}, args)

\* entry.write_update(mapping) / entry.write_update(**kwargs)
RegisterEntry_write_update(z, args, fail) ==
    LET z1 == WriteUpdateLoop(z, DOMAIN args, args)
    IN  [z1 EXCEPT !.x = RegisterEntry_update(z1.x, fail)]

\* the operation ran on the objects z: take over what it left behind
FinishSnap(op, field, args, fail, z, nowstaged) ==
    /\ desired_value' = z.x.desired_value
    /\ mirrored_value' = z.x.mirrored_value
    /\ mem' = z.x.mem
    /\ rawlog' = z.x.rawlog
    /\ devlog' = z.x.devlog
    /\ snapshot' = z.snapshot
    /\ setfunc_owner' = z.setfunc_owner
    /\ staged' = nowstaged
    /\ nops < MaxSnapOps
    /\ nops' = nops + 1
    /\ last' = [Last(op, field, fail, z.x) EXCEPT !.args = args]
    /\ UNCHANGED <<dev, regfile, entry, call>>
    /\ UNCHANGED structvars

\* the objects as they are: the entry (context x), its snapshot and the
\* owners of the field callbacks
Now == [x |-> Ctx, snapshot |-> snapshot, setfunc_owner |-> setfunc_owner]

\* snapshot = entry.read_entry()
ReadEntry ==
    /\ ~snapshot.taken
    /\ \E fail \in FaultsHere :
          LET z == read_entry(Now, fail)
          IN  FinishSnap("read_entry", "", NoArgs, fail, z, Cleared(z.x))

\* entry.field(name).set(0x16)
EntryFieldSet ==
    \E name \in FieldNames :
        LET z == field_set(RegisterEntry_field(Now, "entry", name), name, PyInt(22))
        IN  FinishSnap("field_set", name, name :> PyInt(22), "none", z,
                       staged \/ z.x.desired_value # desired_value)

\* snapshot.field(name).set(0x16)
SnapFieldSet ==
    /\ snapshot.taken
    /\ \E name \in FieldNames :
          LET z == field_set(RegisterEntry_field(Now, "snapshot", name), name,
                             PyInt(22))
          IN  FinishSnap("snap_field_set", name, name :> PyInt(22), "none", z,
                         staged \/ z.x.desired_value # desired_value)

\* snapshot[name]
SnapGetItem ==
    /\ snapshot.taken
    /\ \E name \in FieldNames :
          FinishSnap("snap_getitem", name, NoArgs, "none",
                     snapshot_getitem(Now, name), staged)

\* snapshot[name] = 0x16
SnapSetItem ==
    /\ snapshot.taken
    /\ \E name \in FieldNames :
          FinishSnap("snap_setitem", name, name :> PyInt(22), "none",
                     snapshot_setitem(Now, name, PyInt(22)), staged)

\* entry.write_update(mapping) for the mappings of some of the field names,
\* all to the value 0x16 or all to the value 0x3f
WriteUpdate ==
    \E args \in {[name \in names |-> value] :
                     names \in (SUBSET FieldNames) \ {{}}, value \in FieldValues},
       fail \in FaultsHere :
        LET z == RegisterEntry_write_update(Now, args, fail)
        IN  FinishSnap("write_update", "", args, fail, z, Cleared(z.x))

NextSnap ==
    \/ ReadEntry \/ EntryFieldSet \/ SnapFieldSet \/ SnapGetItem \/ SnapSetItem
    \/ WriteUpdate

\* the snapshot is taken of a file-bound entry
InitSnap == Init /\ entry.bound

SpecSnap == InitSnap /\ [][NextSnap]_vars

---------------------------------------------------------------------------
(* The field level specification: the operations of an entry that name its
   fields *)

\* a name that is not a field of any entry
UnknownName == "nofield"

\* entry[name]
GetItem ==
    \E name \in FieldNames \cup {UnknownName}, fail \in FaultsHere :
        LET x == RegisterEntry_getitem(Ctx, name, fail)
        IN  Finish("getitem", name, fail, x, Cleared(x))

\* the mappings handed to set_value: any selection of the field names and the
\* unknown name, all with the value 0x16 or all with the value 0x3f
Mappings ==
    {[name \in names |-> value] :
        names \in SUBSET (FieldNames \cup {UnknownName}), value \in FieldValues}

\* entry.set_value(mapping) / entry.write(mapping) / entry.write(**kwargs)
SetValueDict ==
    \E args \in Mappings, fail \in FaultsHere :
        LET x == RegisterEntry_set_value_dict(Ctx, args, fail)
        IN  FinishArgs("set_value_dict", "", args, fail, x, Cleared(x))

\* types of values that are neither int, dict nor RegisterEntry
OtherTypes == {"str", "float", "NoneType"}

\* entry.set_value(value) / entry.write(value) / file[name] = value with a
\* value of another type
SetValueOther ==
    \E type \in OtherTypes, via \in {"set_value", "write", "setitem"},
       fail \in FaultsHere :
        LET value == PyValue(type, Zero, NoArgs)
            x == CASE via = "set_value" -> set_value(Ctx, value, fail)
                   [] via = "write"     -> RegisterEntry_write(Ctx, value, fail)
                   [] via = "setitem"   -> Regfile_setitem(Ctx, value, fail)
        IN  /\ via = "setitem" => entry.bound
            /\ Finish("set_value_other", type, fail, x, Cleared(x))

\* a run of the field level specification has at most MaxFieldOps operations
FieldRun == nops < MaxFieldOps

NextField ==
    \/ (FieldRun /\ FieldSet)
    \/ (FieldRun /\ SetItem)
    \/ (FieldRun /\ GetItem)
    \/ (FieldRun /\ SetValueDict)
    \/ (FieldRun /\ SetValueOther)

SpecField == Init /\ [][NextField]_vars

---------------------------------------------------------------------------
(* The structure level specification: a Regfile is built, sealed and used *)

\* names of registers the caller uses
RegNames == {"reg0", "reg1"}

\* the fields the caller adds
PlainFields == {Field("cfg", 4, 0), Field("status", 31, 16)}

\* cfg also with the literal 0x3f, which its five bits truncate, status also
\* with the literal 22
SealFields ==
    PlainFields \cup {[name |-> "cfg", msb |-> 4, lsb |-> 0, reset |-> "0x3f"],
                      [name |-> "status", msb |-> 31, lsb |-> 16, reset |-> "22"]}

\* the keyword arguments the caller hands to represent
RepresentKwargs ==
    { [write_mask |-> PyInt(31)], [write_mask |-> MinusOne],
      [fields |-> PlainFields], [write_mask |-> PyInt(31), fields |-> {}] }

\* attribute names the caller assigns to: one that resolves to nothing, the
\* forms <register>_r and <field>_f, and the existing attribute write_mask
AttrNames == {"newattr", "reg0_r", "cfg_f"}

InitSeal ==
    /\ dev = [kind |-> "simple", n_word_bytes |-> 4]
    /\ regfile = RegfileConfig
    /\ entry = NoEntry
    /\ mem = [a \in {} |-> Zero]
    /\ call = NoCall
    /\ rawlog = <<>>
    /\ devlog = <<>>
    /\ mirrored_value = Zero
    /\ desired_value = Zero
    /\ staged = FALSE
    /\ nops = 0
    /\ last = [op |-> "init", field |-> "", args |-> NoArgs, error |-> NoError,
               pending |-> FALSE, ret |-> Zero, warnings |-> {}]
    /\ NoStructure
    /\ NoSnapshot

\* the operation op on the object called name ended with error
FinishSeal(op, name, error) ==
    /\ nops < MaxSealOps
    /\ nops' = nops + 1
    /\ last' = [op |-> op, field |-> name, args |-> NoArgs, error |-> error,
                pending |-> FALSE, ret |-> Zero, warnings |-> {}]
    /\ UNCHANGED <<dev, mem, call, rawlog, devlog, entry, mirrored_value,
                   desired_value, regfile, staged>>
    /\ UNCHANGED <<snapshot, setfunc_owner>>

\* with file: (entering)
FileEnter ==
    /\ file' = Regfile_enter(file)
    /\ UNCHANGED <<entries, handles, scopes>>
    /\ FinishSeal("file_enter", "", NoError)

\* leaving the with statement of the file
FileExit ==
    /\ file' = Regfile_exit(file)
    /\ UNCHANGED <<entries, handles, scopes>>
    /\ FinishSeal("file_exit", "", NoError)

\* file[key]
FileGetItem ==
    \E key \in RegNames :
        LET r == Regfile_getitem(file, entries, key)
        IN  /\ entries' = r.obj
            /\ UNCHANGED <<file, handles, scopes>>
            /\ FinishSeal("file_getitem", key, r.error)

\* file[key].represent(**kwargs) for an entry of the file
Represent ==
    \E key \in DOMAIN entries, kwargs \in RepresentKwargs :
        /\ entries' = [entries EXCEPT ![key] = RegisterEntry_represent(@, kwargs)]
        /\ UNCHANGED <<file, handles, scopes>>
        /\ FinishSeal("represent", key, NoError)

\* with file[key] as handle: (entering)
EntryEnter ==
    \E key \in DOMAIN entries :
        /\ handles' = handles \cup {key}
        /\ scopes' = scopes \cup {key}
        /\ UNCHANGED <<file, entries>>
        /\ FinishSeal("entry_enter", key, NoError)

\* handle[field.name].represent(bits=...) through a handle the caller holds
AddField ==
    \E key \in handles, field \in SealFields :
        /\ entries' = [entries EXCEPT ![key] = add_field(@, field)]
        /\ UNCHANGED <<file, handles, scopes>>
        /\ FinishSeal("add_field", key, NoError)

\* leaving the with statement of the entry
EntryExit ==
    \E key \in scopes :
        /\ entries' = [entries EXCEPT ![key] = RegisterEntry_exit(@)]
        /\ scopes' = scopes \ {key}
        /\ UNCHANGED <<file, handles>>
        /\ FinishSeal("entry_exit", key, NoError)

\* file[key].write_mask = value
SetWriteMask ==
    \E key \in DOMAIN entries, value \in {PyInt(31), MinusOne} :
        LET r == RegisterEntry_setattr(entries[key], "write_mask", value)
        IN  /\ entries' = [entries EXCEPT ![key] = r.obj]
            /\ UNCHANGED <<file, handles, scopes>>
            /\ FinishSeal("set_write_mask", key, r.error)

\* file.name = value
FileSetAttr ==
    \E name \in AttrNames :
        LET r == Regfile_setattr(file, name)
        IN  /\ file' = r.obj
            /\ UNCHANGED <<entries, handles, scopes>>
            /\ FinishSeal("file_setattr", name, r.error)

\* file[key].name = value and file.<key>_r.name = value
EntrySetAttr ==
    \E key \in DOMAIN entries, name \in AttrNames, via \in {"getitem", "getattr"} :
        LET k == IF via = "getitem" THEN Result(key, NoError)
                 ELSE Regfile_getattr(entries, key \o "_r")
            r == RegisterEntry_setattr(entries[key], name, Zero)
        IN  /\ k.error = NoError
            /\ k.obj = key
            /\ entries' = [entries EXCEPT ![key] = r.obj]
            /\ UNCHANGED <<file, handles, scopes>>
            /\ FinishSeal("entry_setattr", name, r.error)

\* file[key].get_reg(value).name = x: the snapshot is dropped afterwards
SnapshotSetAttr ==
    \E key \in DOMAIN entries, name \in AttrNames :
        LET r == RegisterEntry_setattr(get_reg(entries[key], Zero), name, Zero)
        IN  /\ UNCHANGED structvars
            /\ FinishSeal("snapshot_setattr", name,
                          IF r.obj = get_reg(entries[key], Zero) THEN r.error
                          ELSE "changed")

\* file.reset_all()
ResetAll ==
    /\ entries' = Regfile_reset_all(entries)
    /\ UNCHANGED <<file, handles, scopes>>
    /\ FinishSeal("reset_all", "", NoError)

\* file[key].reset()
EntryReset ==
    \E key \in DOMAIN entries :
        /\ entries' = [entries EXCEPT ![key] = reset_entry(@)]
        /\ UNCHANGED <<file, handles, scopes>>
        /\ FinishSeal("entry_reset", key, NoError)

\* file[key].set(value)
EntrySet ==
    \E key \in DOMAIN entries :
        /\ entries' = [entries EXCEPT ![key] = RegisterEntry_set(@, PyInt(22))]
        /\ UNCHANGED <<file, handles, scopes>>
        /\ FinishSeal("entry_set", key, NoError)

NextSeal ==
    \/ FileEnter \/ FileExit \/ FileGetItem \/ Represent \/ EntryEnter
    \/ AddField \/ EntryExit \/ SetWriteMask \/ FileSetAttr \/ EntrySetAttr
    \/ SnapshotSetAttr \/ ResetAll \/ EntryReset \/ EntrySet

SpecSeal == InitSeal /\ [][NextSeal]_vars

---------------------------------------------------------------------------
(* The device level specification: one direct call of rfdev_write with
   arguments drawn from the input sets *)

\* per byte of the word, the bits of mask and of write_mask in that byte:
\* none, the low nibble or the whole byte
BytePairs ==
    { <<{}, {}>>, <<{}, 0 .. 7>>, <<0 .. 3, 0 .. 3>>, <<0 .. 3, 0 .. 7>>,
      <<0 .. 7, 0 .. 7>>, <<0 .. 7, {}>> }

\* the integer whose byte k holds the bits f[k][which]
FromBytes(f, which) ==
    [neg |-> FALSE,
     bits |-> UNION {{8 * k + b : b \in f[k][which]} : k \in DOMAIN f}]

\* (mask, write_mask) pairs inside the word, and the pairs with the all-ones
\* integer -1 that RegfileMemAccess and the default write_mask pass down
MaskPairs(W) ==
    {[mask |-> FromBytes(f, 1), write_mask |-> FromBytes(f, 2)] :
        f \in [0 .. (W - 1) -> BytePairs]}
    \cup {[mask |-> FromBytes(f, 1), write_mask |-> MinusOne] :
        f \in [0 .. (W - 1) -> {<<{}, {}>>, <<0 .. 7, {}>>}]}
    \cup {[mask |-> MinusOne, write_mask |-> MinusOne],
          [mask |-> MinusOne, write_mask |-> FullMask(8 * W)]}

\* the value to write: byte k is 0xa0 + k + 1, so no two bytes are equal
DevValue(W) ==
    [neg |-> FALSE,
     bits |-> UNION {{8 * k + 5, 8 * k + 7} \cup {8 * k + b : b \in NatBits(k + 1, 0)} :
                     k \in 0 .. (W - 1)}]

DevConfigs ==
    {[kind |-> k, n_word_bytes |-> W] :
        k \in {"simple", "subword"}, W \in 1 .. MaxWordBytes}

InitDev ==
    /\ dev \in DevConfigs
    /\ \E pat \in {"zeros", "ones"} :
          mem = InitMem(dev, 0 .. (dev.n_word_bytes * (MaxWordIdx + 1) - 1), pat)
    /\ \E k \in 0 .. MaxWordIdx, p \in MaskPairs(dev.n_word_bytes) :
          call = [addr |-> dev.n_word_bytes * k, value |-> DevValue(dev.n_word_bytes),
                  mask |-> p.mask, write_mask |-> p.write_mask]
    /\ rawlog = <<>>
    /\ devlog = <<>>
    /\ regfile = RegfileConfig
    /\ entry = NoEntry
    /\ mirrored_value = Zero
    /\ desired_value = Zero
    /\ staged = FALSE
    /\ nops = 0
    /\ last = [op |-> "init", field |-> "", args |-> NoArgs, error |-> NoError,
               pending |-> FALSE, ret |-> Zero, warnings |-> {}]
    /\ NoStructure
    /\ NoSnapshot

\* the call ran in context x
FinishDev(x) ==
    /\ nops = 0
    /\ nops' = 1
    /\ mem' = x.mem
    /\ rawlog' = x.rawlog
    /\ last' = [last EXCEPT !.op = "rfdev_write", !.error = x.error]
    /\ UNCHANGED <<dev, call, devlog, regfile, entry, mirrored_value,
                   desired_value, staged>>
    /\ UNCHANGED structvars
    /\ UNCHANGED <<snapshot, setfunc_owner>>

\* RegfileDevSimple.rfdev_write(addr, value, mask, write_mask)
SimpleWrite ==
    /\ dev.kind = "simple"
    /\ FinishDev(RegfileDevSimple_rfdev_write(dev, Ctx, call.addr, call.value,
                                              call.mask, call.write_mask, "none"))

\* RegfileDevSubword.rfdev_write(addr, value, mask, write_mask)
SubwordWrite ==
    /\ dev.kind = "subword"
    /\ FinishDev(RegfileDevSubword_rfdev_write(dev, Ctx, call.addr, call.value,
                                               call.mask, call.write_mask, "none"))

NextDev == SimpleWrite \/ SubwordWrite

SpecDev == InitDev /\ [][NextDev]_vars

----------------------------------------------------------------------------
(* The block transfer level specification: a debug device is constructed with
   a callback dict and used for blockread and blockwrite *)

\* _allowed_callbacks of RegfileDevSimple and RegfileDevSubword
allowed_callbacks(kind) ==
    IF kind = "simple" THEN {"rfdev_read", "rfdev_write_simple"}
    ELSE {"rfdev_read", "rfdev_write_subword"}

\* RegfileDev.__init__: callback holds the keys of the callback dict, kwargs
\* the deprecated keywords given; methods are the names hasattr finds on an
\* instance of the class
RegfileDev_init(kind, callback, bytes_per_word, kwargs) ==
    LET cb == callback \cup (kwargs \cap {"blockread", "blockwrite"})
        d  == [kind |-> kind, n_word_bytes |-> bytes_per_word, callback |-> cb]
        methods == {"rfdev_read", "rfdev_write", "blockread", "blockwrite"}
                   \cup (IF kind = "simple" THEN {"rfdev_write_simple"}
                         ELSE {"rfdev_write_subword"})
    IN  IF ~(cb \subseteq allowed_callbacks(kind))
        THEN Result(d, "AttributeError")
        ELSE IF \E func \in allowed_callbacks(kind) \ cb : func \notin methods
        THEN Result(d, "TypeError")
        ELSE Result(d, NoError)

\* the list comprehension of RegfileDev.blockread
RECURSIVE BlockReadLoop(_, _, _, _, _)
BlockReadLoop(d, x, start_addr, i, size) ==
    IF i >= size THEN x
    ELSE BlockReadLoop(d, rfdev_read(d, x, start_addr + i * d.n_word_bytes, "none"),
                       start_addr, i + 1, size)

\* RegfileDev.blockread: the list returned holds what the reads of the loop
\* returned; what a native primitive returns is its own business
RegfileDev_blockread(d, x, start_addr, size) ==
    IF "blockread" \in d.callback
    THEN [x EXCEPT !.rawlog = Append(@, RawOp("blockread", start_addr, Zero, size)),
                   !.ret = <<>>]
    ELSE LET x1 == BlockReadLoop(d, x, start_addr, 0, size)
         IN  [x1 EXCEPT !.ret = [k \in 1 .. Len(x1.rawlog) |-> x1.rawlog[k].value]]

\* the for loop of RegfileDev.blockwrite
RECURSIVE BlockWriteLoop(_, _, _, _, _)
BlockWriteLoop(d, x, start_addr, i, values) ==
    IF i >= Len(values) THEN x
    ELSE BlockWriteLoop(d,
             rfdev_write(d, x, start_addr + i * d.n_word_bytes, values[i + 1],
                         FullMask(8 * d.n_word_bytes), FullMask(8 * d.n_word_bytes),
                         "none"),
             start_addr, i + 1, values)

\* RegfileDev.blockwrite
RegfileDev_blockwrite(d, x, start_addr, values) ==
    IF "blockwrite" \in d.callback
    THEN [x EXCEPT !.rawlog = Append(@, RawOp("blockwrite", start_addr, Zero,
                                              Len(values)))]
    ELSE BlockWriteLoop(d, x, start_addr, 0, values)

\* no device has been constructed
NoDevice == [kind |-> "none", n_word_bytes |-> 4, callback |-> {}]

InitBlock ==
    /\ dev = NoDevice
    /\ mem = [a \in {} |-> Zero]
    /\ call = [op |-> "none"]
    /\ rawlog = <<>>
    /\ devlog = <<>>
    /\ regfile = RegfileConfig
    /\ entry = NoEntry
    /\ mirrored_value = Zero
    /\ desired_value = Zero
    /\ staged = FALSE
    /\ nops = 0
    /\ last = [op |-> "init", field |-> "", args |-> NoArgs, error |-> NoError,
               pending |-> FALSE, ret |-> Zero, warnings |-> {}]
    /\ NoStructure
    /\ NoSnapshot

\* the call c on the device ran in context x and left the device d
FinishBlock(c, d, x) ==
    /\ nops < MaxBlockOps
    /\ nops' = nops + 1
    /\ call' = c
    /\ dev' = d
    /\ rawlog' = x.rawlog
    /\ last' = [op |-> c.op, field |-> "", args |-> NoArgs, error |-> x.error,
                pending |-> FALSE, ret |-> x.ret, warnings |-> {}]
    /\ UNCHANGED <<devlog, regfile, entry, mirrored_value, desired_value, staged>>
    /\ UNCHANGED structvars
    /\ UNCHANGED <<snapshot, setfunc_owner>>

\* dev = Class(callback={...}, bytes_per_word=W, **kwargs), the first call of a
\* run; the memory behind the device holds a ramp
Construct ==
    /\ dev = NoDevice
    /\ nops = 0
    /\ \E kind \in {"simple", "subword"},
          callback \in SUBSET {"rfdev_read", "rfdev_write", "rfdev_write_simple",
                               "rfdev_write_subword", "blockread", "blockwrite"},
          bytes_per_word \in {2, 4},
          kwargs \in SUBSET {"blockread", "blockwrite"} :
          LET r == RegfileDev_init(kind, callback, bytes_per_word, kwargs)
              d == IF r.error = NoError THEN r.obj ELSE NoDevice
          IN  /\ mem' = IF r.error = NoError
                        THEN InitMem(d, 4 .. (8 + 4 * MaxBlockLen + 3), "ramp")
                        ELSE mem
              /\ FinishBlock([op |-> "construct", kind |-> kind,
                              callback |-> callback,
                              bytes_per_word |-> bytes_per_word,
                              kwargs |-> kwargs],
                             d, [Ctx EXCEPT !.error = r.error])

\* dev.callback[key] = function, after the construction
AssignCallback ==
    /\ dev # NoDevice
    /\ \E key \in {"blockread", "blockwrite"} :
          /\ key \notin dev.callback
          /\ mem' = mem
          /\ FinishBlock([op |-> "assign_callback", key |-> key],
                         [dev EXCEPT !.callback = @ \cup {key}], Ctx)

\* dev.blockread(8, size)
BlockRead ==
    /\ dev # NoDevice
    /\ \E size \in 0 .. MaxBlockLen :
          LET x == RegfileDev_blockread(dev, Ctx, 8, size)
          IN  /\ mem' = x.mem
              /\ FinishBlock([op |-> "blockread", addr |-> 8,
                              size |-> size], dev, x)

\* dev.blockwrite(8, values), the words being 0x16, 0x17, ...
BlockWrite ==
    /\ dev # NoDevice
    /\ \E size \in 0 .. MaxBlockLen :
          LET x == RegfileDev_blockwrite(dev, Ctx, 8,
                                            [i \in 1 .. size |-> PyInt(21 + i)])
          IN  /\ mem' = x.mem
              /\ FinishBlock([op |-> "blockwrite", addr |-> 8,
                              size |-> size], dev, x)

\* RegfileMemAccess.__init__: kwargs maps the keywords given to their values
RegfileMemAccess_init(rfdev, base_addr, kwargs) ==
    LET self == [base_addr |-> base_addr, do_check_idx |-> FALSE, index_range |-> 0]
    IN  IF "size" \notin DOMAIN kwargs THEN Result(self, "KeyError")
        ELSE IF kwargs.size # 0
        THEN Result([self EXCEPT !.index_range = kwargs.size \div rfdev.n_word_bytes,
                                 !.do_check_idx = TRUE], NoError)
        ELSE Result(self, NoError)

\* RegfileMemAccess.__check_idx: the error it raises
check_idx(self, index) ==
    IF self.do_check_idx /\ index >= self.index_range THEN "IndexError"
    ELSE NoError

\* RegfileMemAccess.__getitem__
RegfileMemAccess_getitem(self, d, x, index) ==
    IF check_idx(self, index) # NoError
    THEN [x EXCEPT !.error = check_idx(self, index)]
    ELSE rfdev_read(d, x, self.base_addr + d.n_word_bytes * index, "none")

\* RegfileMemAccess.__setitem__
RegfileMemAccess_setitem(self, d, x, index, value) ==
    IF check_idx(self, index) # NoError
    THEN [x EXCEPT !.error = check_idx(self, index)]
    ELSE rfdev_write(d, x, self.base_addr + d.n_word_bytes * index, value,
                     MinusOne, MinusOne, "none")

\* RegfileMemAccess(dev, 8, size=size)[index]
MemGetItem ==
    /\ dev # NoDevice
    /\ \E size \in {0, 8}, index \in -1 .. 2 :
          LET r == RegfileMemAccess_init(dev, 8, [size |-> size])
              x == RegfileMemAccess_getitem(r.obj, dev, Ctx, index)
          IN  /\ mem' = x.mem
              /\ FinishBlock([op |-> "mem_getitem", addr |-> 8, size |-> size,
                              index |-> index], dev, x)

\* RegfileMemAccess(dev, 8, size=size)[index] = 0x16
MemSetItem ==
    /\ dev # NoDevice
    /\ \E size \in {0, 8}, index \in -1 .. 2 :
          LET r == RegfileMemAccess_init(dev, 8, [size |-> size])
              x == RegfileMemAccess_setitem(r.obj, dev, Ctx, index, PyInt(22))
          IN  /\ mem' = x.mem
              /\ FinishBlock([op |-> "mem_setitem", addr |-> 8, size |-> size,
                              index |-> index], dev, x)

NextBlock ==
    Construct \/ AssignCallback \/ BlockRead \/ BlockWrite \/ MemGetItem \/ MemSetItem

SpecBlock == InitBlock /\ [][NextBlock]_vars

---------------------------------------------------------------------------
(* Claims about the device layer (checked under SpecDev) *)

CallDone == last.op = "rfdev_write"

\* keep_mask = ~mask & write_mask of the call
KeepMask == BitAnd(BitNot(call.mask), call.write_mask)

\* slot_mask = (2^(8*s) - 1) << (8*i*s)
SlotMask(s, i) == Shl(FullMask(8 * s), 8 * i * s)

\* slot i of s bytes is mask-safe and coverage-safe for the call
SlotSafe(s, i) ==
    /\ BitAnd(KeepMask, SlotMask(s, i)) = Zero
    /\ BitAnd(call.mask, BitNot(SlotMask(s, i))) = Zero

\* the halving sequence W, W/2, ..., 1
RECURSIVE HalvingSizes(_)
HalvingSizes(n) == IF n = 0 THEN {} ELSE {n} \cup HalvingSizes(n \div 2)

\* the aligned slots <<s, i>> of the word that are safe for the call
SafeSlots ==
    {sl \in UNION {{<<s, i>> : i \in 0 .. (dev.n_word_bytes \div s - 1)} :
                   s \in HalvingSizes(dev.n_word_bytes)} :
        SlotSafe(sl[1], sl[2])}

RawReads == {k \in 1 .. Len(rawlog) : rawlog[k].op = "raw_read"}

RawWrites == {k \in 1 .. Len(rawlog) : rawlog[k].op # "raw_read"}

\* the word at the call's address, as the device reads it
MemWord == getvalue(dev, mem, call.addr)

\* (old & ~mask) | (value & mask)
Merge(old, value, mask) == BitOr(BitAnd(old, BitNot(mask)), BitAnd(value, mask))

\* C1: whenever the subword device writes s bytes at addr + i*s without a
\* read before it, slot i of size s is mask-safe and coverage-safe, for every
\* word size
C1_ChosenSlotSafe ==
    (CallDone /\ dev.kind = "subword" /\ RawReads = {})
    => /\ Len(rawlog) = 1
       /\ rawlog[1].op = "raw_write_subword"
       /\ LET s == rawlog[1].size
              i == (rawlog[1].addr - call.addr) \div s
          IN  /\ rawlog[1].addr = call.addr + i * s
              /\ SlotSafe(s, i)

\* C2: every call of the subword device issues exactly one raw_write_subword;
\* no raw read when a safe aligned slot exists, otherwise one raw_read(addr)
\* and then raw_write_subword(addr, (old & ~mask) | (value & mask), W)
C2_ReadOnlyWithoutSafeSlot ==
    (CallDone /\ dev.kind = "subword")
    => /\ Cardinality(RawWrites) = 1
       /\ SafeSlots # {} => RawReads = {}
       /\ SafeSlots = {} =>
            /\ Len(rawlog) = 2
            /\ rawlog[1] = RawOp("raw_read", call.addr, rawlog[1].value,
                                 dev.n_word_bytes)
            /\ rawlog[2] = RawOp("raw_write_subword", call.addr,
                                 Merge(rawlog[1].value, call.value, call.mask),
                                 dev.n_word_bytes)

\* C3: when safe aligned slots exist, the slot written is the one of the
\* largest size and, for that size, of the lowest index
C3_LargestSizeLowestIndex ==
    (CallDone /\ dev.kind = "subword" /\ SafeSlots # {})
    => LET s == Max({sl[1] : sl \in SafeSlots})
           i == Min({sl[2] : sl \in {t \in SafeSlots : t[1] = s}})
       IN  rawlog = <<RawOp("raw_write_subword", call.addr + i * s, call.value, s)>>

\* the bits of byte k of the word
ByteMask(k) == SlotMask(1, k)

\* a subword device with four byte words; the mask of the write is not empty
\* and lies in byte 0, write_mask has bits in byte 2
C4_Case ==
    /\ CallDone
    /\ dev.kind = "subword"
    /\ dev.n_word_bytes = 4
    /\ call.mask # Zero
    /\ BitAnd(call.mask, BitNot(ByteMask(0))) = Zero
    /\ BitAnd(call.write_mask, ByteMask(2)) # Zero

\* C4 as stated: in that case the call issues raw_write_subword(addr, value, 1)
\* and nothing else
C4_SingleByteWrite ==
    C4_Case => rawlog = <<RawOp("raw_write_subword", call.addr, call.value, 1)>>

\* C4, amended: when moreover mask covers all write_mask bits of byte 0, the
\* call issues no read and exactly one raw_write_subword(addr, value, s), with
\* s = 1 if write_mask has bits in byte 1 and s = 2 otherwise
C4_ByteOrHalfWordWrite ==
    (C4_Case /\ BitAnd(KeepMask, ByteMask(0)) = Zero)
    => rawlog = <<RawOp("raw_write_subword", call.addr, call.value,
                        IF BitAnd(call.write_mask, ByteMask(1)) = Zero THEN 2 ELSE 1)>>

C4_Witness ==
    /\ C4_Case
    /\ BitAnd(KeepMask, ByteMask(0)) = Zero
    /\ BitAnd(call.write_mask, ByteMask(1)) = Zero
    /\ Len(rawlog) = 1
    /\ rawlog[1].size = 2

\* C5: the simple device writes value directly when keep_mask = 0; otherwise
\* it reads the word once and writes (old & ~mask) | (value & mask) once, and
\* that is the word the hardware then holds
C5_Step ==
    (last'.op = "rfdev_write" /\ dev.kind = "simple")
    => LET old == mem[call.addr]
       IN  IF KeepMask = Zero
           THEN rawlog' = <<RawOp("raw_write_simple", call.addr, call.value,
                                  dev.n_word_bytes)>>
           ELSE /\ rawlog' = <<RawOp("raw_read", call.addr, old, dev.n_word_bytes),
                               RawOp("raw_write_simple", call.addr,
                                     Merge(old, call.value, call.mask),
                                     dev.n_word_bytes)>>
                /\ mem'[call.addr] = Merge(old, call.value, call.mask)
                /\ \A a \in DOMAIN mem : a # call.addr => mem'[a] = mem[a]

C5_SimpleWriteIsRmw == [][C5_Step]_vars

C5_Witness ==
    /\ CallDone
    /\ dev.kind = "simple"
    /\ KeepMask # Zero
    /\ Len(rawlog) = 2
    /\ MemWord = Merge(rawlog[1].value, call.value, call.mask)
    /\ MemWord # rawlog[1].value

---------------------------------------------------------------------------
(* Claims about the entry layer (checked under Spec) *)

\* the step is an operation op on the entry
IsOp(op) == last'.op = op /\ nops' = nops + 1

\* the address of the entry on the device
EntryAddr == regfile.base_addr + entry.addr

\* the word the hardware holds for the entry
HwWord == getvalue(dev, mem, EntryAddr)

\* a and b have the same bits inside mask
AgreeOn(a, b, mask) == BitAnd(a, mask) = BitAnd(b, mask)

\* C6: mirrored_value differs from desired_value only after a desired-only set
\* (field(name).set(v), set(v)) that no update, write, read or reset has
\* followed; each of update, write, field write, read and reset returns with
\* mirrored_value = desired_value
C6_MirroredIsDesiredUnlessStaged ==
    /\ mirrored_value # desired_value => staged
    /\ (last.op \in {"update", "write", "setitem", "read", "reset"}
        /\ last.error = NoError) => mirrored_value = desired_value

\* C6 for the two kinds of entry: on an entry bound to a file read() is one of
\* the operations that return with mirrored_value = desired_value; on an entry
\* without a file (RegisterEntry, the result of get_reg) read() returns
\* mirrored_value and leaves a staged difference in place
C6_MirroredIsDesiredUnlessStagedOrLocalRead ==
    /\ mirrored_value # desired_value =>
           staged \/ (~entry.bound /\ last.op = "read")
    /\ (/\ \/ last.op \in {"update", "write", "setitem", "reset"}
            \/ (last.op = "read" /\ entry.bound)
        /\ last.error = NoError) => mirrored_value = desired_value

C6_Witness ==
    /\ last.op = "field_set"
    /\ staged
    /\ mirrored_value # desired_value

\* C7: field(name).set(value) issues no device read and no device write,
\* leaves mirrored_value and the hardware alone and changes no bit of
\* desired_value outside the mask of the field
C7_Step ==
    IsOp("field_set")
    => /\ devlog' = <<>>
       /\ rawlog' = <<>>
       /\ mirrored_value' = mirrored_value
       /\ mem' = mem
       /\ last'.error = NoError
       /\ \E field \in entry.fields :
             /\ field.name = last'.field
             /\ AgreeOn(desired_value', desired_value, BitNot(get_mask(field)))

C7_StagedSetIsLocal == [][C7_Step]_vars

C7_Witness ==
    /\ last.op = "field_set"
    /\ desired_value # mirrored_value
    /\ desired_value # Zero
    /\ devlog = <<>>

\* C8: update() of a file-bound entry issues exactly one device transfer, a
\* write of desired_value to base_address + entry.address with mask write_mask,
\* and no read; when it returns, mirrored_value = desired_value and the
\* hardware word has the bits of desired_value inside write_mask
C8_Step ==
    (IsOp("update") /\ entry.bound)
    => /\ devlog' = <<DevOp("write", EntryAddr, desired_value, entry.write_mask,
                            entry.write_mask)>>
       /\ last'.error = NoError =>
             /\ desired_value' = desired_value
             /\ mirrored_value' = desired_value
             /\ AgreeOn(HwWord', desired_value, entry.write_mask)

C8_UpdateIsOneWrite == [][C8_Step]_vars

C8_Witness ==
    /\ last.op = "update"
    /\ entry.bound
    /\ last.pending
    /\ last.error = NoError
    /\ Len(devlog) = 1
    /\ mirrored_value = desired_value
    /\ HwWord = desired_value

\* C9: when the device transfer of update() raises, mirrored_value keeps the
\* value it had before the call and needs_update() still reports the change
C9_Step ==
    (IsOp("update") /\ last'.error # NoError)
    => /\ mirrored_value' = mirrored_value
       /\ (desired_value' # mirrored_value') = (desired_value # mirrored_value)

C9_MirroredKeptOnFailure == [][C9_Step]_vars

\* C10: read() of a file-bound entry issues exactly one device read at
\* base_address + entry.address and no write, returns the observed word and
\* sets mirrored_value and desired_value to it; the stale-pending warning is
\* emitted exactly when desired_value differed from mirrored_value before the
\* read, and the read completes in either case
C10_Step ==
    (IsOp("read") /\ entry.bound)
    => /\ devlog' = <<DevOp("read", EntryAddr, Zero, Zero, Zero)>>
       /\ Len(rawlog') = 1
       /\ rawlog'[1].op = "raw_read"
       /\ rawlog'[1].addr = EntryAddr
       /\ mem' = mem
       /\ last'.error \in {NoError, "BackendError"}
       /\ last'.error = NoError =>
             /\ last'.ret = HwWord
             /\ mirrored_value' = HwWord
             /\ desired_value' = HwWord
             /\ ("stale" \in last'.warnings) = (desired_value # mirrored_value)

C10_ReadOverwritesBoth == [][C10_Step]_vars

C10_Witness ==
    /\ last.op = "read"
    /\ entry.bound
    /\ last.pending
    /\ last.error = NoError
    /\ "stale" \in last.warnings
    /\ last.ret = HwWord
    /\ mirrored_value = last.ret
    /\ desired_value = last.ret

---------------------------------------------------------------------------
(* Claims about the operations that name fields (checked under SpecField) *)

\* nothing was transferred and nothing changed in the step
NothingDone ==
    /\ devlog' = <<>>
    /\ rawlog' = <<>>
    /\ mem' = mem
    /\ mirrored_value' = mirrored_value
    /\ desired_value' = desired_value

\* C11: entry[name] on a file-bound entry issues exactly one device read and
\* returns (observed & field.mask) >> lsb of the observed word; for a name that
\* is not a field it fails with KeyError, issues no device transfer and changes
\* neither mirrored_value nor desired_value
C11_Step ==
    IsOp("getitem")
    => /\ (entry.bound /\ last'.field \in FieldNames) =>
             /\ devlog' = <<DevOp("read", EntryAddr, Zero, Zero, Zero)>>
             /\ Len(rawlog') = 1
             /\ rawlog'[1].op = "raw_read"
             /\ last'.error = NoError =>
                   last'.ret = Shr(BitAnd(HwWord, get_mask(FieldOf(last'.field))),
                                   FieldOf(last'.field).lsb)
       /\ last'.field \notin FieldNames =>
             /\ last'.error = "KeyError"
             /\ NothingDone

C11_GetItemReadsOnce == [][C11_Step]_vars

C11_Witness ==
    /\ last.op = "getitem"
    /\ entry.bound
    /\ last.field = "status"
    /\ last.error = NoError
    /\ last.ret # Zero
    /\ last.ret # HwWord
    /\ Len(devlog) = 1

\* the step is entry[f] that returns, right after the operation op on the same
\* field f returned
GetAfter(op) ==
    /\ IsOp("getitem")
    /\ last'.error = NoError
    /\ last.op = op
    /\ last.error = NoError
    /\ last.field = last'.field

\* v & ((1 << n) - 1) for the value v handed to the last operation on its
\* field of n bits
LastFitted ==
    LET field == FieldOf(last.field)
    IN  BitAnd(last.args[last.field], FullMask(field.msb - field.lsb + 1))

\* C12: round trip: the staged set field(f).set(v) immediately followed by
\* entry[f] returns v & ((1 << n) - 1), on plain and on file-bound entries
C12_StagedStep == GetAfter("field_set") => last'.ret = LastFitted

C12_StagedSetRoundTrip == [][C12_StagedStep]_vars

\* C12 for the field write: entry[f] = v immediately followed by entry[f]
\* returns v & ((1 << n) - 1), on plain entries and on file-bound entries over
\* the memory of the debug devices; after the staged set, entry[f] returns the
\* field of the value that was mirrored (plain entry) or that the hardware
\* holds (file-bound entry)
C12_WriteStep ==
    /\ GetAfter("setitem") => last'.ret = LastFitted
    /\ GetAfter("field_set") =>
          last'.ret = get_field(FieldOf(last.field),
                                IF entry.bound THEN HwWord ELSE mirrored_value)

C12_FieldWriteRoundTrip == [][C12_WriteStep]_vars

\* the second of two operations was entry["status"], it returned 0x16, which
\* only entry["status"] = 0x16 as the first operation can have stored
C12_Witness ==
    /\ nops = 2
    /\ last.op = "getitem"
    /\ last.error = NoError
    /\ entry.bound
    /\ last.field = "status"
    /\ last.ret = PyInt(22)
    /\ get_field(FieldOf("status"), HwWord) = PyInt(22)

\* the fields whose mask lies inside write_mask
WritableNames ==
    {field.name : field \in {f \in entry.fields :
                      BitAnd(get_mask(f), entry.write_mask) = get_mask(f)}}

\* (value truncated to the width of the field) << lsb, for a value >= 0
Contribution(field, value) ==
    [neg |-> FALSE,
     bits |-> {b + field.lsb : b \in value.bits \cap (0 .. (field.msb - field.lsb))}]

\* the OR of the contributions of the fields named in names
Composed(args, names) ==
    [neg |-> FALSE,
     bits |-> UNION {Contribution(FieldOf(n), args[n]).bits : n \in names}]

\* C13: set_value with a mapping is one device transaction that happens also
\* when writable fields are omitted: the value written is the OR of (value
\* truncated to the field) << lsb over the supplied writable fields, the bits
\* of every omitted writable field are 0 in the value written and in
\* mirrored_value afterwards, and the partial-write warning is emitted exactly
\* when a writable field was omitted
C13_Step ==
    IsOp("set_value_dict")
    => LET args     == last'.args
           supplied == WritableNames \cap DOMAIN args
           omitted  == WritableNames \ DOMAIN args
       IN  /\ entry.bound =>
                 devlog' = <<DevOp("write", EntryAddr, Composed(args, supplied),
                                   entry.write_mask, entry.write_mask)>>
           /\ \A n \in omitted :
                 get_field(FieldOf(n), Composed(args, supplied)) = Zero
           /\ last'.error = NoError =>
                 /\ mirrored_value' = desired_value'
                 /\ \A n \in omitted :
                       get_field(FieldOf(n), mirrored_value') = Zero
                 /\ \A n \in supplied :
                       get_field(FieldOf(n), mirrored_value') =
                           get_field(FieldOf(n), Contribution(FieldOf(n), args[n]))
           /\ ("not_set" \in last'.warnings) = (omitted # {})

C13_MappingWriteZeroFills == [][C13_Step]_vars

\* the first operation on reg1 (data = 0x5a after construction) was a mapping
\* write of flag alone: it warned and data is 0
C13_Witness ==
    /\ nops = 1
    /\ last.op = "set_value_dict"
    /\ entry.name = "reg1"
    /\ DOMAIN last.args = {"flag"}
    /\ last.error = NoError
    /\ "not_set" \in last.warnings
    /\ Len(devlog) = 1
    /\ get_field(FieldOf("data"), entry.reset) # Zero
    /\ get_field(FieldOf("data"), mirrored_value) = Zero
    /\ get_field(FieldOf("flag"), mirrored_value) = PyInt(1)

\* C14: in a mapping set_value every supplied field that exists but is
\* read-only is reported with the write-ignored warning and contributes no
\* bits to the value written; the write of the remaining fields completes
C14_Step ==
    (IsOp("set_value_dict") /\ entry.bound)
    => LET args     == last'.args
           readonly == (FieldNames \ WritableNames) \cap DOMAIN args
       IN  readonly # {} =>
               /\ "read_only" \in last'.warnings
               /\ Len(devlog') = 1
               /\ devlog'[1].op = "write"
               /\ \A n \in readonly :
                     get_field(FieldOf(n), devlog'[1].value) = Zero

C14_ReadOnlyFieldReported == [][C14_Step]_vars

\* C15: an operation that names a field the entry does not have, a mapping
\* set_value with an unknown field name included, fails with KeyError, issues
\* no device transfer and leaves mirrored_value and desired_value unchanged
C15_Step ==
    /\ (IsOp("getitem") /\ last'.field \notin FieldNames) =>
          (last'.error = "KeyError" /\ NothingDone)
    /\ (IsOp("set_value_dict") /\ ~(DOMAIN last'.args \subseteq FieldNames)) =>
          (last'.error = "KeyError" /\ NothingDone)

C15_UnknownFieldRaises == [][C15_Step]_vars

\* C16: set_value, entry.write and file[name] = value with a value that is
\* neither an integer, a mapping nor a register entry raise TypeError, issue no
\* device transfer and leave mirrored_value, desired_value and the hardware
\* unchanged
C16_Step ==
    IsOp("set_value_other") => (last'.error = "TypeError" /\ NothingDone)

C16_OtherTypeRaises == [][C16_Step]_vars

\* after a field write had changed the entry and the hardware
C16_Witness ==
    /\ last.op = "set_value_other"
    /\ last.error = "TypeError"
    /\ nops = 2
    /\ entry.bound
    /\ mirrored_value # entry.reset
    /\ HwWord = mirrored_value
    /\ devlog = <<>>

---------------------------------------------------------------------------
(* Claims about the structure of a Regfile (checked under SpecSeal) *)

\* the names of the fields of an entry object
NamesOf(e) == {field.name : field \in e.fields}

\* C17: in every state of an entry outside its field-adding scope, after any
\* sequence of represent calls, field-adding scopes and assignments to
\* write_mask, a field name is in writable_fieldnames exactly if
\* field.mask & write_mask = field.mask for the current write_mask and fields
C17_WritableNamesCurrent ==
    \A key \in DOMAIN entries \ scopes :
        LET e == entries[key]
        IN  /\ e.writable_fieldnames \subseteq NamesOf(e)
            /\ \A field \in e.fields :
                  (field.name \in e.writable_fieldnames)
                      = (BitAnd(get_mask(field), e.write_mask) = get_mask(field))

\* C18: a Regfile is Building or Sealed: while Building, file[name] adds one
\* empty entry bound to the file for an unknown name and adds nothing for a
\* known name; while Sealed, file[name] for an unknown name raises KeyError and
\* the entries are unchanged; leaving the scope of the file seals it, entering
\* it returns to Building, and nothing else changes the state
C18_Step ==
    /\ IsOp("file_getitem") =>
          LET key == last'.field
          IN  /\ key \in DOMAIN entries =>
                    (entries' = entries /\ last'.error = NoError)
              /\ (key \notin DOMAIN entries /\ ~file.frozen) =>
                    /\ last'.error = NoError
                    /\ DOMAIN entries' = DOMAIN entries \cup {key}
                    /\ \A k \in DOMAIN entries : entries'[k] = entries[k]
                    /\ entries'[key].fields = {}
                    /\ entries'[key].bound
              /\ (key \notin DOMAIN entries /\ file.frozen) =>
                    (entries' = entries /\ last'.error = "KeyError")
    /\ IsOp("file_exit") => file'.frozen
    /\ IsOp("file_enter") => ~file'.frozen
    /\ (nops' = nops + 1 /\ last'.op \notin {"file_exit", "file_enter"}) =>
          file'.frozen = file.frozen

C18_BuildingSealed == [][C18_Step]_vars

\* the file was opened, got an entry and was closed; the other name is refused
C18_Witness ==
    /\ last.op = "file_getitem"
    /\ last.error = "KeyError"
    /\ file.frozen
    /\ DOMAIN entries # {}
    /\ last.field \notin DOMAIN entries

\* C19: while the Regfile is sealed, every attempt to add an entry to the file
\* or a field to one of its entries (through the field-adding scope of the
\* entry or a handle kept from an earlier scope) raises, and the set of entries
\* and the set of fields of every entry stay as they are
C19_Step ==
    (file.frozen /\ file'.frozen /\ nops' = nops + 1)
    => /\ DOMAIN entries' = DOMAIN entries
       /\ \A key \in DOMAIN entries : NamesOf(entries'[key]) = NamesOf(entries[key])
       /\ last'.op = "add_field" => last'.error # NoError
       /\ (last'.op = "file_getitem" /\ last'.field \notin DOMAIN entries) =>
             last'.error # NoError

C19_SealedStructureFixed == [][C19_Step]_vars

\* C20: on a sealed Regfile, on its entries and on a snapshot returned by
\* get_reg, assigning an attribute that is not an instance attribute raises
\* and changes nothing, also for the names <register>_r and <field>_f
C20_Step ==
    /\ (IsOp("file_setattr") /\ file.frozen /\ last'.field \notin file.dict) =>
          (last'.error = "AttributeError" /\ UNCHANGED structvars)
    /\ (IsOp("entry_setattr") /\ last'.field \notin EntryDict) =>
          (last'.error = "AttributeError" /\ UNCHANGED structvars)
    /\ (IsOp("snapshot_setattr") /\ last'.field \notin EntryDict) =>
          (last'.error = "AttributeError" /\ UNCHANGED structvars)

C20_NewAttributeRaises == [][C20_Step]_vars

\* entry.cfg_f = x was refused on an entry of a sealed file that has the
\* field cfg
C20_Witness ==
    /\ last.op = "entry_setattr"
    /\ last.field = "cfg_f"
    /\ last.error = "AttributeError"
    /\ file.frozen
    /\ \E key \in DOMAIN entries : "cfg" \in NamesOf(entries[key])

---------------------------------------------------------------------------
(* More claims about the entry layer (checked under Spec) *)

\* what reset() does, and that a second reset() changes nothing
ResetStep ==
    /\ IsOp("reset") =>
          /\ mirrored_value' = entry.reset
          /\ desired_value' = entry.reset
    /\ (IsOp("reset") /\ last.op = "reset") =>
          /\ mirrored_value' = mirrored_value
          /\ desired_value' = desired_value

\* C21: reset idempotence: for every entry, plain or file-bound, and any
\* hardware content, reset() followed by get_value() returns the configured
\* reset value, and reset(); reset() leaves the state of a single reset()
C21_Step ==
    /\ ResetStep
    /\ (IsOp("read") /\ last.op = "reset" /\ last'.error = NoError) =>
          last'.ret = entry.reset

C21_ResetThenGetValue == [][C21_Step]_vars

\* C21 with what get_value() returns on each kind of entry: the reset value
\* on a plain entry, the word read from the hardware on a file-bound entry
\* (which then replaces the reset value in mirrored_value and desired_value)
C21_AmendedStep ==
    /\ ResetStep
    /\ (IsOp("read") /\ last.op = "reset" /\ last'.error = NoError) =>
          /\ last'.ret = IF entry.bound THEN HwWord ELSE entry.reset
          /\ mirrored_value' = last'.ret
          /\ desired_value' = IF entry.bound THEN HwWord ELSE desired_value

C21_ResetIdempotent == [][C21_AmendedStep]_vars

\* reset() discarded a pending change
C21_Witness ==
    /\ last.op = "reset"
    /\ last.pending
    /\ mirrored_value = entry.reset
    /\ desired_value = entry.reset

----------------------------------------------------------------------------
(* Claims about reset values (checked under SpecSeal) *)

\* what a field declared with a reset literal contributes to the reset value
ResetContribution(f) == BitAnd(Shl(ParseInt(f.reset), f.lsb), get_mask(f))

RECURSIVE OrOver(_)
\* the OR of the contributions of the fields of S
OrOver(S) ==
    IF S = {} THEN Zero
    ELSE LET f == CHOOSE g \in S : TRUE
         IN  BitOr(ResetContribution(f), OrOver(S \ {f}))

\* the hardware and the logs of the device are as they were
DeviceUntouched == mem' = mem /\ rawlog' = rawlog /\ devlog' = devlog

\* C22: reset() and reset_all() issue no device read or write and leave the
\* hardware unchanged; after reset_all() every entry of the file has
\* mirrored_value = desired_value = its reset value (after reset() that entry
\* has), and the reset value of an entry is the OR over the fields declared
\* with a reset literal of ((literal << lsb) & mask of the field)
C22_Step ==
    /\ IsOp("reset_all") =>
          /\ DeviceUntouched
          /\ \A k \in DOMAIN entries' :
                /\ entries'[k].mirrored_value = entries'[k].reset
                /\ entries'[k].desired_value = entries'[k].reset
    /\ IsOp("entry_reset") =>
          /\ DeviceUntouched
          /\ entries'[last'.field].mirrored_value = entries'[last'.field].reset
          /\ entries'[last'.field].desired_value = entries'[last'.field].reset
    /\ \A k \in DOMAIN entries' :
          entries'[k].reset =
              OrOver({f \in entries'[k].declared : "reset" \in DOMAIN f})

C22_ResetAll == [][C22_Step]_vars

\* reset_all() of a file with an entry whose reset value came from the
\* truncated literal 0x3f of cfg and the literal 22 of status
C22_Witness ==
    /\ last.op = "reset_all"
    /\ \E k \in DOMAIN entries :
          /\ entries[k].reset = PyInt(31 + 22 * 65536)
          /\ entries[k].desired_value = entries[k].reset

----------------------------------------------------------------------------
(* Claims about comparisons (checked under SpecCmp) *)

\* a comparison ran and returned
Compared == last'.op \in CompareOps /\ nops' = nops + 1 /\ last'.error = NoError

\* C23 (as stated): entry OP n is mirrored_value OP n, for the mirrored_value
\* the entry holds when the comparison is made
C23_Step ==
    Compared =>
        last'.ret = Bool(Compares(last'.op, mirrored_value, last'.args["other"]))

C23_ComparesMirrored == [][C23_Step]_vars

\* C23 (amended): entry OP n is get_value() OP n: a plain entry compares its
\* mirrored_value, a file-bound entry reads the device once, takes the word
\* read as mirrored_value and desired_value and compares that word
C23_AmendedStep ==
    Compared =>
        /\ last'.ret = Bool(Compares(last'.op,
                                     IF entry.bound THEN HwWord ELSE mirrored_value,
                                     last'.args["other"]))
        /\ last'.ret = Bool(Compares(last'.op, mirrored_value', last'.args["other"]))
        /\ entry.bound => desired_value' = mirrored_value'
        /\ Len(devlog') = (IF entry.bound THEN 1 ELSE 0)
        /\ mem' = mem

C23_ComparesGetValue == [][C23_AmendedStep]_vars

\* a file-bound entry whose mirrored_value was 22 after write(22) was compared
\* with 22 by == and the answer was False
C23_Witness ==
    /\ last.op = "__eq__"
    /\ entry.bound
    /\ last.error = NoError
    /\ last.args["other"] = PyInt(22)
    /\ last.ret = Zero
    /\ nops = 2
    /\ ~staged

----------------------------------------------------------------------------
(* Claims about snapshots and field handles (checked under SpecSnap) *)

\* desired with the field replaced by the truncated value
Merged(desired, field, value) ==
    BitOr(BitAnd(desired, BitNot(get_mask(field))),
          Shl(fit_fieldvalue(field, value), field.lsb))

\* an operation on the snapshot ran
SnapshotOp ==
    /\ last'.op \in {"snap_getitem", "snap_setitem", "snap_field_set"}
    /\ nops' = nops + 1

\* C24: read_entry() on a file-bound entry issues exactly one device read and
\* the snapshot it returns holds the word read; a field read or field write
\* on the snapshot issues no device read or write and changes neither the
\* hardware nor mirrored_value or desired_value of the original entry
C24_Step ==
    /\ (IsOp("read_entry") /\ last'.error = NoError) =>
          /\ Len(devlog') = 1
          /\ devlog'[1].op = "read"
          /\ mem' = mem
          /\ snapshot'.taken
          /\ snapshot'.mirrored_value = HwWord
          /\ snapshot'.desired_value = HwWord
    /\ SnapshotOp =>
          /\ devlog' = <<>>
          /\ rawlog' = <<>>
          /\ mem' = mem
          /\ mirrored_value' = mirrored_value
          /\ desired_value' = desired_value
    /\ IsOp("snap_getitem") =>
          last'.ret = get_field(FieldOf(last'.field), snapshot.mirrored_value)

C24_SnapshotDetached == [][C24_Step]_vars

\* C25: write_update(fields) on a file-bound entry without a pending change
\* issues exactly one write transaction, and afterwards the register holds,
\* for every writable field named, the value truncated to the field and, for
\* every writable field not named, the value the entry held for it before
C25_Step ==
    (IsOp("write_update") /\ last'.error = NoError
        /\ desired_value = mirrored_value) =>
          /\ Len(devlog') = 1
          /\ devlog'[1].op = "write"
          /\ \A f \in entry.fields :
                f.name \in entry.writable_fieldnames =>
                    get_field(f, HwWord') =
                        IF f.name \in DOMAIN last'.args
                        THEN fit_fieldvalue(f, last'.args[f.name])
                        ELSE get_field(f, mirrored_value)

C25_WriteUpdate == [][C25_Step]_vars

\* C26: E.field(f).set(v) changes the desired_value of E and nothing of the
\* snapshot S, and S.field(f).set(v) changes the desired_value of S and
\* nothing of E, whichever of the two asked for the field first
C26_Step ==
    /\ IsOp("field_set") =>
          /\ desired_value' =
                 Merged(desired_value, FieldOf(last'.field),
                        last'.args[last'.field])
          /\ mirrored_value' = mirrored_value
          /\ snapshot' = snapshot
    /\ IsOp("snap_field_set") =>
          /\ snapshot'.desired_value =
                 Merged(snapshot.desired_value, FieldOf(last'.field),
                        last'.args[last'.field])
          /\ snapshot'.mirrored_value = snapshot.mirrored_value
          /\ desired_value' = desired_value
          /\ mirrored_value' = mirrored_value

C26_FieldSetOwnEntry == [][C26_Step]_vars

----------------------------------------------------------------------------
(* Claims about single-field writes (checked under Spec) *)

\* C27: entry[b] = w on a file-bound entry changes in mirrored_value only the
\* bits of field b: what mirrored_value holds afterwards for another field a
\* is what it held before, unless the hardware holds the same for a after the
\* operation
C27_Step ==
    (IsOp("setitem") /\ last'.error = NoError /\ entry.bound) =>
        \A a \in entry.fields :
            a.name # last'.field =>
                \/ get_field(a, mirrored_value') = get_field(a, mirrored_value)
                \/ get_field(a, mirrored_value') = get_field(a, HwWord')

C27_SetItemKeepsStaged == [][C27_Step]_vars

----------------------------------------------------------------------------
(* More claims about the device layer (checked under SpecDev) *)

\* the word size is a power of two and mask and write_mask lie in the word
PowerOfTwoCall ==
    /\ dev.n_word_bytes \in {1, 2, 4}
    /\ FitsWord(call.mask, 8 * dev.n_word_bytes)
    /\ FitsWord(call.write_mask, 8 * dev.n_word_bytes)

\* C28: for a word size that is a power of two and mask, write_mask within the
\* word, the word the simple device holds after the write and the word the
\* subword device holds after the same write both equal
\* (old & ~mask) | (value & mask) on every bit of mask | write_mask
C28_Step ==
    (last'.op = "rfdev_write" /\ PowerOfTwoCall) =>
        AgreeOn(getvalue(dev, mem', call.addr),
                Merge(MemWord, call.value, call.mask),
                BitOr(call.mask, call.write_mask))

C28_DevicesEquivalent == [][C28_Step]_vars

\* mask has every bit of the word (the integer -1 has them all)
MaskCoversWord ==
    BitAnd(call.mask, FullMask(8 * dev.n_word_bytes)) = FullMask(8 * dev.n_word_bytes)

\* C29: a write whose mask covers the whole word issues exactly one raw write,
\* of the full word at the address of the call, and no raw read, on the simple
\* and on the subword device
C29_FullMaskNeverReads ==
    (CallDone /\ MaskCoversWord) =>
        /\ RawReads = {}
        /\ Len(rawlog) = 1
        /\ rawlog[1].addr = call.addr
        /\ rawlog[1].size = dev.n_word_bytes

----------------------------------------------------------------------------
(* Claims about block transfers (checked under SpecBlock) *)

\* C30: a device constructed with a callback dict that holds blockread and/or
\* blockwrite next to the primitives its class allows is accepted and keeps
\* them; blockread and blockwrite of a device that has the primitive call it
\* exactly once and issue no single-word operation
C30_Step ==
    /\ (IsOp("construct") /\ call'.kwargs = {}
          /\ (call'.callback \ {"blockread", "blockwrite"})
                 \subseteq allowed_callbacks(call'.kind)) =>
          /\ last'.error = NoError
          /\ dev'.kind = call'.kind
          /\ dev'.callback = call'.callback
    /\ (IsOp("blockread") /\ "blockread" \in dev.callback) =>
          rawlog' = <<RawOp("blockread", call'.addr, Zero, call'.size)>>
    /\ (IsOp("blockwrite") /\ "blockwrite" \in dev.callback) =>
          /\ rawlog' = <<RawOp("blockwrite", call'.addr, Zero, call'.size)>>
          /\ mem' = mem

C30_NativeBlockAccepted == [][C30_Step]_vars

----------------------------------------------------------------------------
(* Claims about the width of the values (checked under Spec) *)

\* C33: every value a file-bound entry hands to a raw write primitive fits
\* the device word, 0 <= value < 2^(8*W), and so do mirrored_value and
\* desired_value after a write(), update() or entry[name] = value that
\* returned
C33_ValuesFitWord ==
    entry.bound =>
        /\ \A k \in RawWrites : FitsWord(rawlog[k].value, 8 * dev.n_word_bytes)
        /\ (last.op \in {"write", "update", "setitem"} /\ last.error = NoError) =>
              /\ FitsWord(mirrored_value, 8 * dev.n_word_bytes)
              /\ FitsWord(desired_value, 8 * dev.n_word_bytes)

---------------------------------------------------------------------------
(* Claims about the memory accessor and the default block transfers
   (checked under SpecBlock) *)

\* the index of the access lies in 0 .. size // W - 1
IndexInRange ==
    /\ 0 <= call'.index
    /\ call'.index < call'.size \div dev.n_word_bytes

\* C31: with a size bound configured, an element read or write of the memory
\* accessor at word index i goes to the device at base + W*i if and only if
\* 0 <= i < size // W; for every other index, negative ones included, it
\* raises IndexError and no transfer reaches the device
C31_Step ==
    ((IsOp("mem_getitem") \/ IsOp("mem_setitem")) /\ call'.size # 0)
    => IF IndexInRange
       THEN /\ rawlog' # <<>>
            /\ \A k \in 1 .. Len(rawlog') :
                  rawlog'[k].addr = call'.addr + dev.n_word_bytes * call'.index
       ELSE /\ last'.error = "IndexError"
            /\ rawlog' = <<>>

C31_IndexChecked == [][C31_Step]_vars

\* the values handed to blockwrite
WrittenValues(n) == [i \in 1 .. n |-> PyInt(21 + i)]

\* C32: without a native primitive blockwrite(start, values) issues one full
\* word write of values[i] at start + i*W for i = 0 .. n-1, in that order and
\* without a read, and blockread(start, n) returns what the single word reads
\* at start + i*W return, in that order; the device being memory backed, a
\* blockread after a blockwrite returns the values written
C32_Step ==
    /\ (IsOp("blockwrite") /\ "blockwrite" \notin dev.callback)
       => rawlog' = [i \in 1 .. call'.size |->
                       RawOp(IF dev.kind = "simple" THEN "raw_write_simple"
                             ELSE "raw_write_subword",
                             call'.addr + (i - 1) * dev.n_word_bytes,
                             WrittenValues(call'.size)[i], dev.n_word_bytes)]
    /\ (IsOp("blockread") /\ "blockread" \notin dev.callback)
       => /\ rawlog' = [i \in 1 .. call'.size |->
                          RawOp("raw_read", call'.addr + (i - 1) * dev.n_word_bytes,
                                getvalue(dev, mem, call'.addr + (i - 1) * dev.n_word_bytes),
                                dev.n_word_bytes)]
          /\ last'.ret = [i \in 1 .. call'.size |-> rawlog'[i].value]
    /\ (/\ IsOp("blockread") /\ "blockread" \notin dev.callback
        /\ last.op = "blockwrite" /\ "blockwrite" \notin dev.callback
        /\ call'.size <= call.size)
       => last'.ret = WrittenValues(call'.size)

C32_BlockLoops == [][C32_Step]_vars

=============================================================================
